---- MODULE Spec2Model ----
(***************************************************************************)
(* Models of the programs of the repository, one specification each: the   *)
(* in-memory file system of src/unix-file-system.py (Spec), the LRU cache  *)
(* of src/LRUCache.py (SpecLRU) and the vending machine of                 *)
(* src/VendingMachine.py (SpecVM).  The programs share nothing: the        *)
(* variables of the others stay as they are in each specification.         *)
(*                                                                         *)
(* Python objects live in a heap: `nodes` is a sequence of records, and a  *)
(* reference to a node is its index.  A Python str is a sequence of        *)
(* one-character strings, so that splitting, comparing and measuring it    *)
(* are computed, not assumed.  A dict is a sequence of entries in          *)
(* insertion order, as CPython keeps it.  An exception is the name of its  *)
(* class.  time.time() is a logical clock that ticks once per call, so     *)
(* every timestamp taken during one call is the same.                      *)
(***************************************************************************)
EXTENDS Integers, Sequences, FiniteSets, TLC

\* The file system: the heap, the clock, the call just made, the heap
\* before it, and the number of calls made on a Node itself (add_child,
\* set_permissions).
VARIABLES nodes, now, last, pre, direct

\* The LRU cache: the object, the object before the call just made, the
\* calls made so far.
VARIABLES lru, lruPre, lruLog

\* The vending machine: the object, the object before the call just made,
\* the call just made, the number of calls made.
VARIABLES vm, vmPre, vmLast, vmCalls

\* The auction service of OnlineAuctionApp.py: its objects, those before the
\* last call, the last call and the number of calls made.
VARIABLES auc, aucPre, aucLast, aucCalls

\* The ice-cream shop of IceCreamShop.py, likewise.
VARIABLES ice, icePre, iceLast, iceCalls

\* The users, carts, orders and products of Amazon.py, likewise.
VARIABLES amz, amzPre, amzLast, amzCalls

fsVars == <<nodes, now, last, pre, direct>>

lruVars == <<lru, lruPre, lruLog>>

vmVars == <<vm, vmPre, vmLast, vmCalls>>

aucVars == <<auc, aucPre, aucLast, aucCalls>>

iceVars == <<ice, icePre, iceLast, iceCalls>>

amzVars == <<amz, amzPre, amzLast, amzCalls>>

vars == <<fsVars, lruVars, vmVars, aucVars, iceVars, amzVars>>

(***************************************************************************)
(* Bounds and inputs.                                                      *)
(***************************************************************************)

\* The number of FileSystem calls in a run; the clock stops there.
MaxTime == 3

\* The path strings the calls are made with: "", "/", "//", "a", "/a",
\* "/a/", "/B", "/ab", "/a/B", "a//B/", "/B/a", "/a/B/ab".
Paths ==
    { <<>>,
      <<"/">>,
      <<"/", "/">>,
      <<"a">>,
      <<"/", "a">>,
      <<"/", "a", "/">>,
      <<"/", "B">>,
      <<"/", "a", "b">>,
      <<"/", "a", "/", "B">>,
      <<"a", "/", "/", "B", "/">>,
      <<"/", "B", "/", "a">>,
      <<"/", "a", "/", "B", "/", "a", "b">> }

\* The content strings: "" and "hi".
Contents == { <<>>, <<"h", "i">> }

(***************************************************************************)
(* Python values.                                                          *)
(***************************************************************************)

\* The return value of a call that returns nothing, or that raised.
None == "None"

\* A reference that is None (Node.parent of a node nobody attached).
NoRef == 0

\* The outcome of a call that raised nothing.
NoError == "none"

\* ord(c) of the characters used.
Ord(c) ==
    CASE c = "/" -> 47
      [] c = "B" -> 66
      [] c = "a" -> 97
      [] c = "b" -> 98
      [] c = "h" -> 104
      [] c = "i" -> 105

\* s < t for two str: the first differing character decides, a proper
\* prefix is smaller.
RECURSIVE StrLessFrom(_, _, _)
StrLessFrom(s, t, i) ==
    IF i > Len(t) THEN FALSE
    ELSE IF i > Len(s) THEN TRUE
    ELSE IF Ord(s[i]) < Ord(t[i]) THEN TRUE
    ELSE IF Ord(s[i]) > Ord(t[i]) THEN FALSE
    ELSE StrLessFrom(s, t, i + 1)

StrLess(s, t) == StrLessFrom(s, t, 1)

\* Insertion of x into an ascending list, after the elements equal to it.
RECURSIVE InsertSorted(_, _)
InsertSorted(x, xs) ==
    IF xs = <<>> THEN <<x>>
    ELSE IF StrLess(x, Head(xs)) THEN <<x>> \o xs
    ELSE <<Head(xs)>> \o InsertSorted(x, Tail(xs))

\* sorted(xs) for a list of str.
RECURSIVE sorted(_)
sorted(xs) ==
    IF xs = <<>> THEN <<>>
    ELSE InsertSorted(xs[Len(xs)], sorted(SubSeq(xs, 1, Len(xs) - 1)))

\* s.split("/"): the pieces between the slashes, empty ones included.
RECURSIVE SplitFrom(_, _, _, _)
SplitFrom(s, i, piece, acc) ==
    IF i > Len(s) THEN Append(acc, piece)
    ELSE IF s[i] = "/" THEN SplitFrom(s, i + 1, <<>>, Append(acc, piece))
    ELSE SplitFrom(s, i + 1, Append(piece, s[i]), acc)

split(s) == SplitFrom(s, 1, <<>>, <<>>)

\* [part for part in path.split("/") if part]
IsNonEmpty(part) == part # <<>>

\* The parts without the filter: path.split("/") with its empty parts.
PathPartsKeepEmpty(path) == split(path)

PathParts(path) == SelectSeq(split(path), IsNonEmpty)

(***************************************************************************)
(* Node, Directory, File.                                                  *)
(***************************************************************************)

DefaultPermissions == [read |-> TRUE, write |-> TRUE, execute |-> FALSE]

\* Directory(name) built at time t: Node.__init__ then Directory.__init__.
Directory(name, t) ==
    [kind |-> "Directory", name |-> name, parent |-> NoRef,
     creation_time |-> t, modification_time |-> t,
     permissions |-> DefaultPermissions,
     children |-> <<>>]

\* File(name) built at time t: Node.__init__ then File.__init__.
File(name, t) ==
    [kind |-> "File", name |-> name, parent |-> NoRef,
     creation_time |-> t, modification_time |-> t,
     permissions |-> DefaultPermissions,
     content |-> <<>>, size |-> 0]

\* hasattr(node, attr): a File has no children, a Directory no content or size.
HasAttr(node, attr) == attr \in DOMAIN node

\* dict.keys() in insertion order.
Keys(children) == [i \in 1..Len(children) |-> children[i].key]

\* key in dict
InDict(children, key) == \E i \in 1..Len(children) : children[i].key = key

\* dict[key] for a key that is in it.
DictGet(children, key) ==
    children[CHOOSE i \in 1..Len(children) : children[i].key = key].value

\* dict[key] = value
DictSet(children, key, value) ==
    IF InDict(children, key)
    THEN [i \in 1..Len(children) |->
            IF children[i].key = key
            THEN [key |-> key, value |-> value]
            ELSE children[i]]
    ELSE Append(children, [key |-> key, value |-> value])

\* The root is the first object the FileSystem builds.
Root == 1

(***************************************************************************)
(* FileSystem: each method as a function of the heap h, the clock t and    *)
(* the arguments, giving the heap afterwards, the exception raised (or     *)
(* NoError) and the value returned.                                        *)
(***************************************************************************)

Raised(h, err) == [nodes |-> h, err |-> err, ret |-> None]

Returned(h, ret) == [nodes |-> h, err |-> NoError, ret |-> ret]

\* FileSystem.__init__ at time t: the heap holds the root alone.
NewFileSystem(t) == <<Directory(<<>>, t)>>

\* The loop of _traverse leaving the loop at a missing part (a break where
\* the raise is) and returning the node reached so far.
RECURSIVE TraverseLoopBreaks(_, _, _, _)
TraverseLoopBreaks(h, node, parts, i) ==
    IF i > Len(parts) THEN [err |-> NoError, node |-> node]
    ELSE IF ~HasAttr(h[node], "children")
         THEN [err |-> "AttributeError", node |-> NoRef]
    ELSE IF InDict(h[node].children, parts[i])
         THEN TraverseLoopBreaks(h, DictGet(h[node].children, parts[i]),
                                 parts, i + 1)
    ELSE [err |-> NoError, node |-> node]

\* The loop of _traverse from `node` over parts[i..]: the node reached, or
\* the exception.  node.children on a File raises AttributeError.
RECURSIVE TraverseLoop(_, _, _, _)
TraverseLoop(h, node, parts, i) ==
    IF i > Len(parts) THEN [err |-> NoError, node |-> node]
    ELSE IF ~HasAttr(h[node], "children")
         THEN [err |-> "AttributeError", node |-> NoRef]
    ELSE IF InDict(h[node].children, parts[i])
         THEN TraverseLoop(h, DictGet(h[node].children, parts[i]), parts, i + 1)
    ELSE [err |-> "FileNotFoundError", node |-> NoRef]

\* FileSystem._traverse(path)
Traverse(h, path) ==
    IF path = <<"/">> THEN [err |-> NoError, node |-> Root]
    ELSE TraverseLoop(h, Root, PathParts(path), 1)

\* Ls without the sort: the keys as the dict holds them.
LsInsertionOrder(h, path) ==
    LET r == Traverse(h, path) IN
    IF r.err # NoError THEN Raised(h, r.err)
    ELSE IF ~HasAttr(h[r.node], "children") THEN Raised(h, "AttributeError")
    ELSE Returned(h, Keys(h[r.node].children))

\* Ls sorting the dict of the directory itself: its entries end up in the
\* order of their keys.
LsSortsInPlace(h, path) ==
    LET r == Traverse(h, path) IN
    IF r.err # NoError THEN Raised(h, r.err)
    ELSE IF ~HasAttr(h[r.node], "children") THEN Raised(h, "AttributeError")
    ELSE LET children == h[r.node].children
             keys == sorted(Keys(children))
         IN  Returned([h EXCEPT ![r.node].children =
                          [i \in 1..Len(keys) |->
                             [key |-> keys[i],
                              value |-> DictGet(children, keys[i])]]],
                      keys)

\* FileSystem.ls(path)
Ls(h, path) ==
    LET r == Traverse(h, path) IN
    IF r.err # NoError THEN Raised(h, r.err)
    ELSE IF ~HasAttr(h[r.node], "children") THEN Raised(h, "AttributeError")
    ELSE Returned(h, sorted(Keys(h[r.node].children)))

\* AttachNew without the back-reference: new.parent stays None.
AttachNewWithoutParent(h, node, new, t) ==
    Append([h EXCEPT ![node].children = DictSet(@, new.name, Len(h) + 1),
                     ![node].modification_time = t],
           new)

\* The heap after `node` got a new child built by New(name, t):
\*   new.parent = node; node.children[part] = new;
\*   node.update_modification_time()
AttachNew(h, node, new, t) ==
    LET ref == Len(h) + 1 IN
    Append([h EXCEPT ![node].children = DictSet(@, new.name, ref),
                     ![node].modification_time = t],
           [new EXCEPT !.parent = node])

\* The loop of mkdir with update_modification_time() called for every part,
\* created or found.
RECURSIVE MkdirLoopTouchAlways(_, _, _, _, _)
MkdirLoopTouchAlways(h, node, parts, i, t) ==
    IF i > Len(parts) THEN Returned(h, None)
    ELSE IF ~HasAttr(h[node], "children") THEN Raised(h, "AttributeError")
    ELSE LET part == parts[i]
             h1 == IF InDict(h[node].children, part) THEN h
                   ELSE AttachNew(h, node, Directory(part, t), t)
             h2 == [h1 EXCEPT ![node].modification_time = t]
         IN MkdirLoopTouchAlways(h2, DictGet(h2[node].children, part),
                                 parts, i + 1, t)

\* The loop of mkdir building a Directory for every part, in place of the
\* child of that name when there is one.
RECURSIVE MkdirLoopAlwaysCreates(_, _, _, _, _)
MkdirLoopAlwaysCreates(h, node, parts, i, t) ==
    IF i > Len(parts) THEN Returned(h, None)
    ELSE IF ~HasAttr(h[node], "children") THEN Raised(h, "AttributeError")
    ELSE LET part == parts[i]
             h2 == AttachNew(h, node, Directory(part, t), t)
         IN MkdirLoopAlwaysCreates(h2, DictGet(h2[node].children, part),
                                   parts, i + 1, t)

\* The loop of mkdir building a File for each missing part.
RECURSIVE MkdirLoopBuildsFiles(_, _, _, _, _)
MkdirLoopBuildsFiles(h, node, parts, i, t) ==
    IF i > Len(parts) THEN Returned(h, None)
    ELSE IF ~HasAttr(h[node], "children") THEN Raised(h, "AttributeError")
    ELSE LET part == parts[i]
             h2 == IF InDict(h[node].children, part) THEN h
                   ELSE AttachNew(h, node, File(part, t), t)
         IN MkdirLoopBuildsFiles(h2, DictGet(h2[node].children, part),
                                 parts, i + 1, t)

\* The loop of mkdir from `node` over parts[i..].
RECURSIVE MkdirLoop(_, _, _, _, _)
MkdirLoop(h, node, parts, i, t) ==
    IF i > Len(parts) THEN Returned(h, None)
    ELSE IF ~HasAttr(h[node], "children") THEN Raised(h, "AttributeError")
    ELSE LET part == parts[i]
             h2 == IF InDict(h[node].children, part) THEN h
                   ELSE AttachNew(h, node, Directory(part, t), t)
         IN MkdirLoop(h2, DictGet(h2[node].children, part), parts, i + 1, t)

\* mkdir calling update_modification_time() on the root before its loop.
MkdirTouchesRoot(h, path, t) ==
    MkdirLoop([h EXCEPT ![Root].modification_time = t], Root,
              PathParts(path), 1, t)

\* FileSystem.mkdir(path)
Mkdir(h, path, t) == MkdirLoop(h, Root, PathParts(path), 1, t)

\* The loop of addContentToFile with the last part built as the parts
\* before it are: a Directory.
RECURSIVE AddContentLoopAllDirectories(_, _, _, _, _, _)
AddContentLoopAllDirectories(h, node, parts, i, content, t) ==
    IF i > Len(parts) THEN Returned(h, None)
    ELSE IF ~HasAttr(h[node], "children") THEN Raised(h, "AttributeError")
    ELSE LET part == parts[i] IN
         IF i = Len(parts)
         THEN IF InDict(h[node].children, part) THEN Returned(h, None)
              ELSE Returned(AttachNew(h, node, Directory(part, t), t), None)
         ELSE LET h2 == IF InDict(h[node].children, part) THEN h
                        ELSE AttachNew(h, node, Directory(part, t), t)
              IN AddContentLoopAllDirectories(h2, DictGet(h2[node].children, part),
                                              parts, i + 1, content, t)

\* The loop of addContentToFile appending `content` to the File of the
\* last part, built or found.
RECURSIVE AddContentLoopAppends(_, _, _, _, _, _)
AddContentLoopAppends(h, node, parts, i, content, t) ==
    IF i > Len(parts) THEN Returned(h, None)
    ELSE IF ~HasAttr(h[node], "children") THEN Raised(h, "AttributeError")
    ELSE LET part == parts[i]
             h2 == IF InDict(h[node].children, part) THEN h
                   ELSE AttachNew(h, node,
                                  IF i = Len(parts) THEN File(part, t)
                                  ELSE Directory(part, t), t)
             child == DictGet(h2[node].children, part)
         IN IF i < Len(parts)
            THEN AddContentLoopAppends(h2, child, parts, i + 1, content, t)
            ELSE IF ~HasAttr(h2[child], "content")
            THEN Raised(h2, "AttributeError")
            ELSE Returned([h2 EXCEPT
                             ![child].content = @ \o content,
                             ![child].size = Len(h2[child].content \o content)],
                          None)

\* The loop of addContentToFile attaching the File of the last part to the
\* root, whatever directory the walk has reached.
RECURSIVE AddContentLoopFileAtRoot(_, _, _, _, _, _)
AddContentLoopFileAtRoot(h, node, parts, i, content, t) ==
    IF i > Len(parts) THEN Returned(h, None)
    ELSE IF ~HasAttr(h[node], "children") THEN Raised(h, "AttributeError")
    ELSE LET part == parts[i] IN
         IF i = Len(parts)
         THEN IF InDict(h[node].children, part) THEN Returned(h, None)
              ELSE Returned(AttachNew(h, Root, File(part, t), t), None)
         ELSE LET h2 == IF InDict(h[node].children, part) THEN h
                        ELSE AttachNew(h, node, Directory(part, t), t)
              IN AddContentLoopFileAtRoot(h2, DictGet(h2[node].children, part),
                                          parts, i + 1, content, t)

\* The loop of addContentToFile from `node` over parts[i..]: the last part
\* gets a File when it is missing, and nothing is done with `content`.
RECURSIVE AddContentLoop(_, _, _, _, _, _)
AddContentLoop(h, node, parts, i, content, t) ==
    IF i > Len(parts) THEN Returned(h, None)
    ELSE IF ~HasAttr(h[node], "children") THEN Raised(h, "AttributeError")
    ELSE LET part == parts[i] IN
         IF i = Len(parts)
         THEN IF InDict(h[node].children, part) THEN Returned(h, None)
              ELSE Returned(AttachNew(h, node, File(part, t), t), None)
         ELSE LET h2 == IF InDict(h[node].children, part) THEN h
                        ELSE AttachNew(h, node, Directory(part, t), t)
              IN AddContentLoop(h2, DictGet(h2[node].children, part),
                                parts, i + 1, content, t)

\* FileSystem.addContentToFile(filePath, content)
AddContentToFile(h, filePath, content, t) ==
    AddContentLoop(h, Root, PathParts(filePath), 1, content, t)

\* add_content appending to the content and leaving `size` as it was.
AddContentKeepsSize(h, node, content) ==
    [h EXCEPT ![node].content = @ \o content]

\* File.add_content(content) on the File at `node`:
\*   self.content += content; self.size = len(self.content)
AddContent(h, node, content) ==
    [h EXCEPT ![node].content = @ \o content,
              ![node].size = Len(h[node].content \o content)]

\* readContentFromFile refusing a file whose read flag is off.
ReadContentChecksPermission(h, filePath) ==
    LET r == Traverse(h, filePath) IN
    IF r.err # NoError THEN Raised(h, r.err)
    ELSE IF ~h[r.node].permissions.read THEN Raised(h, "PermissionError")
    ELSE IF ~HasAttr(h[r.node], "content") THEN Raised(h, "AttributeError")
    ELSE Returned(h, h[r.node].content)

\* FileSystem.readContentFromFile(filePath)
ReadContentFromFile(h, filePath) ==
    LET r == Traverse(h, filePath) IN
    IF r.err # NoError THEN Raised(h, r.err)
    ELSE IF ~HasAttr(h[r.node], "content") THEN Raised(h, "AttributeError")
    ELSE Returned(h, h[r.node].content)

\* FileSystem.get_metadata(path): node.size is read first, and a Directory
\* has none.  A size of 0 is falsy.
GetMetadata(h, path) ==
    LET r == Traverse(h, path) IN
    IF r.err # NoError THEN Raised(h, r.err)
    ELSE IF ~HasAttr(h[r.node], "size") THEN Raised(h, "AttributeError")
    ELSE LET node == h[r.node] IN
         Returned(h, [name |-> node.name,
                      creation_time |-> node.creation_time,
                      modification_time |-> node.modification_time,
                      size |-> IF node.size # 0 THEN node.size ELSE 0,
                      permission |-> node.permissions,
                      type |-> IF node.size # 0 THEN "File" ELSE "Directory"])

(***************************************************************************)
(* The state machine: a client makes one call after the other.  `now` is   *)
(* what time.time() returns during the call, `last` records the call just  *)
(* made and its outcome, and `pre` is the heap before it.                  *)
(***************************************************************************)

\* The record of a call: what was called with what, the exception raised,
\* and the value returned, in the field of its type (a list of names from
\* ls, a str from readContentFromFile, a dict from get_metadata).
NoMetadata ==
    [name |-> <<>>, creation_time |-> 0, modification_time |-> 0,
     size |-> 0, permission |-> DefaultPermissions, type |-> "None"]

Call(op, path, content, r) ==
    LET returned(o) == op = o /\ r.err = NoError IN
    [op |-> op, path |-> path, node |-> NoRef, child |-> NoRef,
     flags |-> DefaultPermissions, content |-> content, err |-> r.err,
     listing |-> IF returned("ls") THEN r.ret ELSE <<>>,
     text |-> IF returned("readContentFromFile") THEN r.ret ELSE <<>>,
     metadata |-> IF returned("get_metadata") THEN r.ret ELSE NoMetadata]

\* What a variable holds when no object of its class has been built.
NotBuilt == <<>>

NoLRUCache ==
    /\ lru = NotBuilt
    /\ lruPre = NotBuilt
    /\ lruLog = <<>>

NoVendingMachine ==
    /\ vm = NotBuilt
    /\ vmPre = NotBuilt
    /\ vmLast = NotBuilt
    /\ vmCalls = 0

NoAuctionService ==
    /\ auc = NotBuilt
    /\ aucPre = NotBuilt
    /\ aucLast = NotBuilt
    /\ aucCalls = 0

NoIceCreamShop ==
    /\ ice = NotBuilt
    /\ icePre = NotBuilt
    /\ iceLast = NotBuilt
    /\ iceCalls = 0

NoAmazon ==
    /\ amz = NotBuilt
    /\ amzPre = NotBuilt
    /\ amzLast = NotBuilt
    /\ amzCalls = 0

Init ==
    /\ nodes = NewFileSystem(0)
    /\ now = 0
    /\ last = Call("__init__", <<>>, <<>>, Returned(nodes, None))
    /\ pre = <<>>
    /\ direct = 0
    /\ NoLRUCache
    /\ NoVendingMachine
    /\ NoAuctionService
    /\ NoIceCreamShop
    /\ NoAmazon

Step(op, path, content, r) ==
    /\ now < MaxTime
    /\ now' = now + 1
    /\ nodes' = r.nodes
    /\ last' = Call(op, path, content, r)
    /\ pre' = nodes
    /\ UNCHANGED <<direct, lruVars, vmVars, aucVars, iceVars, amzVars>>

ls(path) == Step("ls", path, <<>>, Ls(nodes, path))

mkdir(path) == Step("mkdir", path, <<>>, Mkdir(nodes, path, now + 1))

addContentToFile(filePath, content) ==
    Step("addContentToFile", filePath, content,
         AddContentToFile(nodes, filePath, content, now + 1))

readContentFromFile(filePath) ==
    Step("readContentFromFile", filePath, <<>>,
         ReadContentFromFile(nodes, filePath))

get_metadata(path) ==
    Step("get_metadata", path, <<>>, GetMetadata(nodes, path))

\* A client that holds a File calls its add_content.
add_content(node, content) ==
    /\ node \in 1..Len(nodes)
    /\ HasAttr(nodes[node], "content")
    /\ now < MaxTime
    /\ now' = now + 1
    /\ nodes' = AddContent(nodes, node, content)
    /\ last' = [Call("add_content", <<>>, content, Returned(nodes', None))
                 EXCEPT !.node = node]
    /\ pre' = nodes
    /\ UNCHANGED <<direct, lruVars, vmVars, aucVars, iceVars, amzVars>>

Next ==
    \/ \E path \in Paths : ls(path)
    \/ \E path \in Paths : mkdir(path)
    \/ \E path \in Paths, content \in Contents : addContentToFile(path, content)
    \/ \E path \in Paths : readContentFromFile(path)
    \/ \E path \in Paths : get_metadata(path)
    \/ \E node \in 1..Len(nodes), content \in Contents :
          add_content(node, content)

Spec == Init /\ [][Next]_vars

(***************************************************************************)
(* The vocabulary of the claims.                                           *)
(***************************************************************************)

\* The error kinds of the specification.  PathNotFound is the source's
\* FileNotFoundError; the source raises none of the other three.
PathNotFound == "FileNotFoundError"
NotADirectory == "NotADirectory"
NotAFile == "NotAFile"
PathConflict == "PathConflict"

ReadOps == {"ls", "readContentFromFile", "get_metadata"}

Front(parts) == SubSeq(parts, 1, Len(parts) - 1)

Final(parts) == parts[Len(parts)]

Prefix(parts, k) == SubSeq(parts, 1, k)

Range(xs) == {xs[i] : i \in 1..Len(xs)}

\* The nodes a sequence of segments names in heap h: the root for no
\* segment, else the children, under the last segment, of the directories
\* that the segments before it name.
RECURSIVE At(_, _)
At(h, parts) ==
    IF parts = <<>> THEN {Root}
    ELSE {h[d].children[i].value :
            <<d, i>> \in {<<d, i>> \in At(h, Front(parts)) \X (1..Len(h)) :
                            /\ h[d].kind = "Directory"
                            /\ i \in 1..Len(h[d].children)
                            /\ h[d].children[i].key = Final(parts)}}

ResolvesTo(h, parts, kind) == \E n \in At(h, parts) : h[n].kind = kind

Exists(h, parts) == At(h, parts) # {}

\* The names of the children of directory d.
ChildNames(h, d) == {h[d].children[i].key : i \in 1..Len(h[d].children)}

\* A path string for a sequence of segments: a slash before each.
RECURSIVE PathString(_)
PathString(parts) ==
    IF parts = <<>> THEN <<>>
    ELSE PathString(Front(parts)) \o <<"/">> \o Final(parts)

\* xs is strictly ascending in the order of str.
Ascending(xs) == \A i \in 1..(Len(xs) - 1) : StrLess(xs[i], xs[i + 1])

\* The segments of the path of the call just made.
LastParts == PathParts(last.path)

(***************************************************************************)
(* C1.  Round trip: for a path p that does not exist yet and any string    *)
(* s, after addContentToFile(p, s) the call readContentFromFile(p)         *)
(* returns exactly s.                                                      *)
(***************************************************************************)
C1_RoundTrip ==
    (/\ last.op = "addContentToFile"
     /\ LastParts # <<>>
     /\ ~Exists(pre, LastParts))
    => /\ ReadContentFromFile(nodes, last.path).err = NoError
       /\ ReadContentFromFile(nodes, last.path).ret = last.content

(***************************************************************************)
(* C2.  Metadata invariant: for every path that resolves to a File,        *)
(* get_metadata(p) succeeds with size = len(readContentFromFile(p)) and    *)
(* type = "File", an empty file included.                                  *)
(***************************************************************************)
C2_MetadataOfFile ==
    (/\ last.op = "get_metadata"
     /\ ResolvesTo(nodes, LastParts, "File"))
    => /\ last.err = NoError
       /\ last.metadata.type = "File"
       /\ last.metadata.size = Len(ReadContentFromFile(nodes, last.path).ret)

(***************************************************************************)
(* C3.  ls(d) on a directory returns exactly the names of its immediate    *)
(* children in ascending (code point, hence case-sensitive) order.  An     *)
(* ascending list without repetition is determined by the set of its       *)
(* elements, so the listing depends on the children alone and not on the   *)
(* order they were inserted in.                                            *)
(***************************************************************************)
C3_LsSortedChildren ==
    (/\ last.op = "ls"
     /\ ResolvesTo(nodes, LastParts, "Directory"))
    => /\ last.err = NoError
       /\ Ascending(last.listing)
       /\ \A d \in At(nodes, LastParts) :
            /\ Range(last.listing) = ChildNames(nodes, d)
            /\ Len(last.listing) = Cardinality(ChildNames(nodes, d))

\* A listing of two children or more that were not inserted in ascending
\* order ("a" before "B").
C3_Witness ==
    /\ last.op = "ls"
    /\ last.err = NoError
    /\ Len(last.listing) >= 2
    /\ \E d \in At(nodes, LastParts) :
         /\ nodes[d].kind = "Directory"
         /\ Keys(nodes[d].children) # last.listing

(***************************************************************************)
(* C4.  mkdir is idempotent.  As claimed, for every path and every         *)
(* reachable tree: a second mkdir(p) raises no error and leaves the tree   *)
(* as the first call left it.  The second call is the function Mkdir       *)
(* applied to the heap the first call left.                                *)
(***************************************************************************)
SecondMkdirIsNoOp ==
    LET second == Mkdir(nodes, last.path, now + 1) IN
    /\ second.err = NoError
    /\ second.nodes = nodes

\* C4 as claimed: after any mkdir(p), a second mkdir(p) is a no-op without
\* error.
C4_MkdirIdempotent == last.op = "mkdir" => SecondMkdirIsNoOp

\* C4 as amended: a second mkdir(p) after a first one that raised no error
\* raises no error and leaves the tree as the first call left it.
C4_MkdirIdempotentAfterSuccess ==
    (last.op = "mkdir" /\ last.err = NoError) => SecondMkdirIsNoOp

\* A first mkdir that created two directories or more.
C4_Witness ==
    /\ last.op = "mkdir"
    /\ last.err = NoError
    /\ Len(nodes) >= Len(pre) + 2

(***************************************************************************)
(* C5.  After mkdir(p) succeeds, for p of one segment or more: ls on the   *)
(* parent path of p's last segment includes that segment, and p resolves   *)
(* to a Directory.                                                         *)
(***************************************************************************)
C5_MkdirMakesDirectory ==
    (/\ last.op = "mkdir"
     /\ last.err = NoError
     /\ LastParts # <<>>)
    => /\ Ls(nodes, PathString(Front(LastParts))).err = NoError
       /\ Final(LastParts) \in Range(Ls(nodes, PathString(Front(LastParts))).ret)
       /\ Traverse(nodes, last.path).err = NoError
       /\ nodes[Traverse(nodes, last.path).node].kind = "Directory"

(***************************************************************************)
(* C6.  After addContentToFile(p, s) on a path whose final segment does    *)
(* not exist yet, a new File named by that segment is attached to the      *)
(* parent directory, and ls of the parent path includes the name (and is   *)
(* that name alone when the parent had no other child).                    *)
(***************************************************************************)
NewFileAttached ==
    LET parent == PathString(Front(LastParts))
        listing == Ls(nodes, parent)
    IN /\ \E f \in At(nodes, LastParts) :
            /\ f > Len(pre)
            /\ nodes[f].kind = "File"
            /\ nodes[f].name = Final(LastParts)
            /\ nodes[f].parent \in At(nodes, Front(LastParts))
            /\ nodes[nodes[f].parent].kind = "Directory"
       /\ listing.err = NoError
       /\ Final(LastParts) \in Range(listing.ret)
       /\ (\A d \in At(pre, Front(LastParts)) : pre[d].children = <<>>)
            => listing.ret = <<Final(LastParts)>>

\* C6 as claimed: after any addContentToFile(p, s) whose final segment did
\* not exist, the new File is attached and listed.
C6_NewFileAttached ==
    (/\ last.op = "addContentToFile"
     /\ LastParts # <<>>
     /\ ~Exists(pre, LastParts))
    => NewFileAttached

\* C6 as amended: the same, for a call that raised no error.
C6_NewFileAttachedOnReturn ==
    (/\ last.op = "addContentToFile"
     /\ last.err = NoError
     /\ LastParts # <<>>
     /\ ~Exists(pre, LastParts))
    => NewFileAttached

\* A file created in a directory that existed, below the root, and was
\* empty: the listing is the new name alone.
C6_Witness ==
    /\ last.op = "addContentToFile"
    /\ last.err = NoError
    /\ Len(LastParts) >= 2
    /\ ~Exists(pre, LastParts)
    /\ ResolvesTo(pre, Front(LastParts), "Directory")
    /\ Ls(nodes, PathString(Front(LastParts))).ret = <<Final(LastParts)>>

(***************************************************************************)
(* C7.  Read-only resolution (ls, readContentFromFile, get_metadata) of a  *)
(* path in which some segment is not a child of the directory reached so   *)
(* far fails with PathNotFound (FileNotFoundError) and returns no node.    *)
(***************************************************************************)
MissingSegment(h, parts) ==
    \E k \in 1..Len(parts) :
        /\ ResolvesTo(h, Prefix(parts, k - 1), "Directory")
        /\ ~Exists(h, Prefix(parts, k))

C7_MissingSegmentNotFound ==
    (/\ last.op \in ReadOps
     /\ MissingSegment(pre, LastParts))
    => /\ last.err = PathNotFound
       /\ Traverse(pre, last.path) = [err |-> PathNotFound, node |-> NoRef]
       /\ nodes = pre

\* Resolving "/a/B" when "/a" is a directory without a child "B".
C7_Witness ==
    /\ last.op \in ReadOps
    /\ Len(LastParts) >= 2
    /\ Exists(pre, Prefix(LastParts, 1))
    /\ MissingSegment(pre, LastParts)

(***************************************************************************)
(* C8.  ls(p) on a path that resolves to a File fails with the error kind  *)
(* NotADirectory: not with a listing, and not with another error.          *)
(***************************************************************************)
C8_LsOfFileNotADirectory ==
    (/\ last.op = "ls"
     /\ ResolvesTo(pre, LastParts, "File"))
    => last.err = NotADirectory

(***************************************************************************)
(* C9.  readContentFromFile(p) on a path that resolves to a Directory, the *)
(* root included, fails with the error kind NotAFile and returns no        *)
(* content.                                                                *)
(***************************************************************************)
C9_ReadOfDirectoryNotAFile ==
    (/\ last.op = "readContentFromFile"
     /\ ResolvesTo(pre, LastParts, "Directory"))
    => last.err = NotAFile

(***************************************************************************)
(* C10.  mkdir(p) fails with PathConflict whenever some segment of p,      *)
(* intermediate or final, names an existing File at that position: it      *)
(* never reports success for a path that is occupied by a File.  Stated    *)
(* here is the part that does not depend on how the failure is named: the  *)
(* call does not report success.                                           *)
(***************************************************************************)
FileOnPath(h, parts) ==
    \E k \in 1..Len(parts) : ResolvesTo(h, Prefix(parts, k), "File")

C10_MkdirOverFileFails ==
    (/\ last.op = "mkdir"
     /\ FileOnPath(pre, LastParts))
    => last.err # NoError

(***************************************************************************)
(* C11.  addContentToFile(p, s) fails with PathConflict when the final     *)
(* segment of p names an existing Directory: it does not report success    *)
(* in that case.  Stated here is the part that does not depend on how the  *)
(* failure is named: the call does not report success.                     *)
(***************************************************************************)
C11_AddContentOverDirectoryFails ==
    (/\ last.op = "addContentToFile"
     /\ LastParts # <<>>
     /\ ResolvesTo(pre, LastParts, "Directory"))
    => last.err # NoError

(***************************************************************************)
(* C12.  get_metadata(p) on any path p that resolves to a Directory, "/"   *)
(* included, succeeds and returns a record with size 0 and type            *)
(* "Directory".                                                            *)
(***************************************************************************)
C12_MetadataOfDirectory ==
    (/\ last.op = "get_metadata"
     /\ ResolvesTo(pre, LastParts, "Directory"))
    => /\ last.err = NoError
       /\ last.metadata.size = 0
       /\ last.metadata.type = "Directory"

(***************************************************************************)
(* C13.  Resolution never descends through a File: for ls,                 *)
(* readContentFromFile and get_metadata, a path that has further segments  *)
(* after a segment naming a File fails with PathNotFound or NotADirectory, *)
(* never with a node and never with another error.                         *)
(***************************************************************************)
FileBeforeEnd(h, parts) ==
    \E k \in 1..(Len(parts) - 1) : ResolvesTo(h, Prefix(parts, k), "File")

C13_NoDescentThroughFile ==
    (/\ last.op \in ReadOps
     /\ FileBeforeEnd(pre, LastParts))
    => last.err \in {PathNotFound, NotADirectory}

(***************************************************************************)
(* C14.  Path handling depends only on the sequence of non-empty segments: *)
(* for every operation (ls, mkdir, addContentToFile, readContentFromFile,  *)
(* get_metadata), two path strings that differ only in leading, trailing   *)
(* or repeated '/' behave identically, and any path with zero segments     *)
(* ("/", "", "//") resolves to the root directory.                         *)
(***************************************************************************)

\* The non-empty segments of a path string, read off the string: the
\* maximal runs of characters other than '/', from left to right.
Segments(path) ==
    LET starts == {i \in 1..Len(path) :
                     /\ path[i] # "/"
                     /\ (i = 1 \/ path[i - 1] = "/")}
        start(k) == CHOOSE s \in starts :
                        Cardinality({x \in starts : x < s}) = k - 1
        end(s) == CHOOSE j \in s..Len(path) :
                        /\ \A i \in s..j : path[i] # "/"
                        /\ (j = Len(path) \/ path[j + 1] = "/")
    IN  [k \in 1..Cardinality(starts) |->
            SubSeq(path, start(k), end(start(k)))]

FileSystemOps ==
    {"ls", "mkdir", "addContentToFile", "readContentFromFile", "get_metadata"}

\* What the operation named op does in heap h at time t.
Outcome(op, h, path, content, t) ==
    CASE op = "ls" -> Ls(h, path)
      [] op = "mkdir" -> Mkdir(h, path, t)
      [] op = "addContentToFile" -> AddContentToFile(h, path, content, t)
      [] op = "readContentFromFile" -> ReadContentFromFile(h, path)
      [] op = "get_metadata" -> GetMetadata(h, path)

\* The call just made, had it been made with path string q.
SameOutcomeWith(q) ==
    LET r == Outcome(last.op, pre, q, last.content, now) IN
    /\ r.nodes = nodes
    /\ Call(last.op, last.path, last.content, r) = last

C14_OnlySegmentsMatter ==
    /\ last.op \in FileSystemOps =>
         \A q \in Paths :
            Segments(q) = Segments(last.path) => SameOutcomeWith(q)
    /\ \A q \in Paths :
          Segments(q) = <<>> =>
             Traverse(nodes, q) = [err |-> NoError, node |-> Root]

\* mkdir("a//B/") has made two directories, as mkdir("/a/B") would have,
\* and the three spellings of the root resolve in a tree with children.
C14_Witness ==
    /\ last.op = "mkdir"
    /\ Len(Segments(last.path)) = 2
    /\ Len(nodes) = Len(pre) + 2
    /\ \E q \in Paths : q # last.path /\ Segments(q) = Segments(last.path)
    /\ Cardinality({q \in Paths : Segments(q) = <<>>}) = 3

(***************************************************************************)
(* C15.  mkdir("/"), and mkdir of any path with zero segments, succeeds    *)
(* without error and leaves the whole tree unchanged, in every reachable   *)
(* state.                                                                  *)
(***************************************************************************)
C15_MkdirRootIsNoOp ==
    (/\ last.op = "mkdir"
     /\ Segments(last.path) = <<>>)
    => /\ last.err = NoError
       /\ nodes = pre

\* mkdir("/") in a tree that has nodes below the root, made earlier than
\* the call.
C15_Witness ==
    /\ last.op = "mkdir"
    /\ last.path = <<"/">>
    /\ Len(pre) > 1
    /\ pre[Root].modification_time < now

(***************************************************************************)
(* C16.  In every reachable state (after any sequence of addContentToFile  *)
(* and File.add_content calls), every File node satisfies                  *)
(* size == len(content).                                                   *)
(***************************************************************************)
C16_SizeIsLenOfContent ==
    \A n \in 1..Len(nodes) :
        nodes[n].kind = "File" => nodes[n].size = Len(nodes[n].content)

\* add_content has appended to a File that had content already.
C16_Witness ==
    /\ last.op = "add_content"
    /\ last.content # <<>>
    /\ pre[last.node].content # <<>>
    /\ Len(nodes[last.node].content) > Len(pre[last.node].content)

(***************************************************************************)
(* The LRU cache of src/LRUCache.py.  The nodes of its doubly linked list  *)
(* live in a heap of their own, `self.nodes`; a node that was evicted      *)
(* stays there, unreferenced.  Keys and values are ints.                   *)
(***************************************************************************)

\* The number of get and put calls in a run.
MaxCalls == 4

\* The capacities the cache is built with, and the keys and values of the
\* calls.
Capacities == {1, 2}

CacheKeys == {1, 2, 3}

CacheValues == {-1, 1}

\* None in the key and the value of a sentinel node, where ints are.
Unset == NoRef

\* What get returns for a key that is not in the cache.
NotFound == -1

\* Node(key, value)
Node(key, value) ==
    [key |-> key, value |-> value, prev |-> NoRef, next |-> NoRef]

\* LRUCache(capacity): the head and the tail are the first two nodes built.
LRUCache(capacity) ==
    [capacity |-> capacity,
     cache |-> <<>>,
     head |-> 1,
     tail |-> 2,
     nodes |-> <<[Node(Unset, Unset) EXCEPT !.next = 2],
                 [Node(Unset, Unset) EXCEPT !.prev = 1]>>]

\* del dict[key]
DictDel(children, key) ==
    SelectSeq(children, LAMBDA entry : entry.key # key)

\* LRUCache._remove_node(node)
RemoveNode(self, node) ==
    LET h1 == [self.nodes EXCEPT ![self.nodes[node].prev].next =
                                     self.nodes[node].next]
        h2 == [h1 EXCEPT ![h1[node].next].prev = h1[node].prev]
    IN  [self EXCEPT !.nodes = h2]

\* LRUCache._add_to_head(node)
AddToHead(self, node) ==
    LET h1 == [self.nodes EXCEPT ![node].prev = self.head]
        h2 == [h1 EXCEPT ![node].next = h1[self.head].next]
        h3 == [h2 EXCEPT ![h2[self.head].next].prev = node]
        h4 == [h3 EXCEPT ![self.head].next = node]
    IN  [self EXCEPT !.nodes = h4]

\* get returning the value and leaving the node where it is in the list.
GetWithoutMove(self, key) ==
    IF ~InDict(self.cache, key) THEN [self |-> self, ret |-> NotFound]
    ELSE [self |-> self,
          ret |-> self.nodes[DictGet(self.cache, key)].value]

\* LRUCache.get(key): the cache afterwards and the value returned.
Get(self, key) ==
    IF ~InDict(self.cache, key) THEN [self |-> self, ret |-> NotFound]
    ELSE LET node == DictGet(self.cache, key)
             s2 == AddToHead(RemoveNode(self, node), node)
         IN  [self |-> s2, ret |-> s2.nodes[node].value]

\* The eviction of put: the node before the tail leaves the list and its
\* key leaves the dict.
Evict(self) ==
    LET lru_node == self.nodes[self.tail].prev
        s1 == RemoveNode(self, lru_node)
    IN  [s1 EXCEPT !.cache = DictDel(@, s1.nodes[lru_node].key)]

\* The end of put: a new node for the key, in the dict and at the head.
Insert(self, key, value) ==
    LET new_node == Len(self.nodes) + 1
        s1 == [self EXCEPT !.nodes = Append(@, Node(key, value)),
                           !.cache = DictSet(@, key, new_node)]
    IN  AddToHead(s1, new_node)

\* put moving the node of a key it finds to the head without writing the
\* value.
PutKeepsValue(self, key, value) ==
    IF InDict(self.cache, key)
    THEN LET node == DictGet(self.cache, key)
         IN  AddToHead(RemoveNode(self, node), node)
    ELSE IF Len(self.cache) = self.capacity
    THEN Insert(Evict(self), key, value)
    ELSE Insert(self, key, value)

\* put evicting only when the dict holds more than `capacity` keys.
PutEvictsWhenOver(self, key, value) ==
    IF InDict(self.cache, key)
    THEN LET node == DictGet(self.cache, key)
             s1 == [self EXCEPT !.nodes[node].value = value]
         IN  AddToHead(RemoveNode(s1, node), node)
    ELSE IF Len(self.cache) > self.capacity
    THEN Insert(Evict(self), key, value)
    ELSE Insert(self, key, value)

\* LRUCache.put(key, value): the cache afterwards.
Put(self, key, value) ==
    IF InDict(self.cache, key)
    THEN LET node == DictGet(self.cache, key)
             s1 == [self EXCEPT !.nodes[node].value = value]
         IN  AddToHead(RemoveNode(s1, node), node)
    ELSE IF Len(self.cache) = self.capacity
    THEN Insert(Evict(self), key, value)
    ELSE Insert(self, key, value)

(***************************************************************************)
(* The state machine of the cache: a client builds it with one of the      *)
(* capacities and calls get and put.  `lruLog` records each call with the  *)
(* keys the dict held before and after it, and `lruPre` is the cache       *)
(* before the call just made.                                              *)
(***************************************************************************)

NoFileSystem ==
    /\ nodes = NotBuilt
    /\ now = 0
    /\ last = NotBuilt
    /\ pre = NotBuilt
    /\ direct = 0

\* self.cache.keys(), as a set.
StoredKeys(self) == {self.cache[i].key : i \in 1..Len(self.cache)}

\* The record of a call: get has no value and put returns none.
Logged(op, key, value, ret, before, after) ==
    [op |-> op, key |-> key, value |-> value, ret |-> ret,
     before |-> StoredKeys(before), after |-> StoredKeys(after)]

InitLRU ==
    /\ \E capacity \in Capacities : lru = LRUCache(capacity)
    /\ lruPre = lru
    /\ lruLog = <<>>
    /\ NoFileSystem
    /\ NoVendingMachine
    /\ NoAuctionService
    /\ NoIceCreamShop
    /\ NoAmazon

get(key) ==
    LET r == Get(lru, key) IN
    /\ Len(lruLog) < MaxCalls
    /\ lru' = r.self
    /\ lruPre' = lru
    /\ lruLog' = Append(lruLog, Logged("get", key, Unset, r.ret, lru, lru'))
    /\ UNCHANGED <<fsVars, vmVars, aucVars, iceVars, amzVars>>

put(key, value) ==
    /\ Len(lruLog) < MaxCalls
    /\ lru' = Put(lru, key, value)
    /\ lruPre' = lru
    /\ lruLog' = Append(lruLog, Logged("put", key, value, Unset, lru, lru'))
    /\ UNCHANGED <<fsVars, vmVars, aucVars, iceVars, amzVars>>

NextLRU ==
    \/ \E key \in CacheKeys : get(key)
    \/ \E key \in CacheKeys, value \in CacheValues : put(key, value)

SpecLRU == InitLRU /\ [][NextLRU]_vars

(***************************************************************************)
(* The vocabulary of the claims about the cache.                           *)
(***************************************************************************)

\* The call just made; there is one when the log is not empty.
LruLast == lruLog[Len(lruLog)]

\* The value stored with key k, a stored key.
ValueOf(self, k) == self.nodes[DictGet(self.cache, k)].value

\* The keys of the list from `node` to the tail, in at most `fuel` steps.
RECURSIVE KeysFrom(_, _, _)
KeysFrom(self, node, fuel) ==
    IF node = self.tail \/ node = NoRef \/ fuel = 0 THEN <<>>
    ELSE <<self.nodes[node].key>>
         \o KeysFrom(self, self.nodes[node].next, fuel - 1)

\* The keys in the order of the list, the head's side first.
RecencyOrder(self) ==
    KeysFrom(self, self.nodes[self.head].next, Len(self.nodes))

\* The greatest member of a set of positions, 0 for none.
Latest(positions) ==
    IF positions = {} THEN 0
    ELSE CHOOSE i \in positions : \A j \in positions : j <= i

\* The position in the log of the most recent access of key k: a put of
\* it, or a get of it while it was stored.
LastAccess(log, k) ==
    Latest({i \in 1..Len(log) :
              /\ log[i].key = k
              /\ (log[i].op = "put" \/ k \in log[i].before)})

\* The position in the log of the most recent put of key k.
LastPut(log, k) ==
    Latest({i \in 1..Len(log) : log[i].key = k /\ log[i].op = "put"})

\* Key k left the stored keys in a call after position i.
EvictedSince(log, i, k) ==
    \E j \in (i + 1)..Len(log) : k \in log[j].before /\ k \notin log[j].after

\* The call just made left the stored keys, their values and their order
\* in the list as they were.
SameCache ==
    /\ StoredKeys(lru) = StoredKeys(lruPre)
    /\ \A k \in StoredKeys(lruPre) : ValueOf(lru, k) = ValueOf(lruPre, k)
    /\ RecencyOrder(lru) = RecencyOrder(lruPre)

(***************************************************************************)
(* C17.  LRU eviction: when put(k, v) is called with k absent and the      *)
(* cache already holding `capacity` keys, exactly one key is evicted and   *)
(* it is the key whose most recent access (a get that hit, or a put) is    *)
(* the oldest; every other key keeps its value, and k is stored with v.    *)
(***************************************************************************)
C17_EvictsLeastRecentlyUsed ==
    (/\ lruLog # <<>>
     /\ LruLast.op = "put"
     /\ LruLast.key \notin StoredKeys(lruPre)
     /\ Cardinality(StoredKeys(lruPre)) = lruPre.capacity)
    => LET before == StoredKeys(lruPre)
           evicted == before \ StoredKeys(lru)
           kept == before \ evicted
           earlier == Front(lruLog)
       IN  /\ Cardinality(evicted) = 1
           /\ \A e \in evicted, k \in kept :
                 LastAccess(earlier, e) < LastAccess(earlier, k)
           /\ StoredKeys(lru) = kept \cup {LruLast.key}
           /\ \A k \in kept : ValueOf(lru, k) = ValueOf(lruPre, k)
           /\ ValueOf(lru, LruLast.key) = LruLast.value

\* put(1, .), put(2, .), get(1), put(3, .) on a cache of capacity 2: key 2
\* is evicted, though key 1 was put first.
C17_Witness ==
    /\ lru.capacity = 2
    /\ Len(lruLog) = 4
    /\ [i \in 1..4 |-> lruLog[i].op] = <<"put", "put", "get", "put">>
    /\ [i \in 1..4 |-> lruLog[i].key] = <<1, 2, 1, 3>>
    /\ StoredKeys(lru) = {1, 3}

(***************************************************************************)
(* C18.  LRUCache.get(k) returns the value of the most recent put(k, .)    *)
(* if k has not been evicted since that put, and -1 otherwise; a get that  *)
(* returns -1 changes neither the stored keys, their values, nor their     *)
(* recency order.                                                          *)
(***************************************************************************)
GetReturnsLastPut ==
    LET earlier == Front(lruLog)
        k == LruLast.key
        i == LastPut(earlier, k)
    IN  LruLast.ret = IF i # 0 /\ ~EvictedSince(earlier, i, k)
                      THEN earlier[i].value
                      ELSE NotFound

C18_GetReturnsLastPut ==
    (/\ lruLog # <<>>
     /\ LruLast.op = "get")
    => /\ GetReturnsLastPut
       /\ (LruLast.ret = NotFound => SameCache)

\* The same, with the second half for a get of a key that is not stored.
C18_GetOfAbsentKeyChangesNothing ==
    (/\ lruLog # <<>>
     /\ LruLast.op = "get")
    => /\ GetReturnsLastPut
       /\ (LruLast.key \notin StoredKeys(lruPre) => SameCache)

\* A get of a key that was put and evicted since, in a cache that holds
\* another key.
C18_Witness ==
    /\ lruLog # <<>>
    /\ LruLast.op = "get"
    /\ LastPut(Front(lruLog), LruLast.key) # 0
    /\ LruLast.key \notin StoredKeys(lruPre)
    /\ LruLast.ret = NotFound
    /\ StoredKeys(lru) # {}

(***************************************************************************)
(* C19.  After any sequence of get and put calls on an LRUCache built with *)
(* capacity c >= 1, the number of stored keys never exceeds c; a put on an *)
(* already present key updates its value and evicts nothing.               *)
(***************************************************************************)
C19_NeverMoreThanCapacity ==
    /\ Cardinality(StoredKeys(lru)) <= lru.capacity
    /\ ((/\ lruLog # <<>>
         /\ LruLast.op = "put"
         /\ LruLast.key \in StoredKeys(lruPre))
        => /\ StoredKeys(lru) = StoredKeys(lruPre)
           /\ ValueOf(lru, LruLast.key) = LruLast.value)

\* A put of another value on a key of a full cache of capacity 2.
C19_Witness ==
    /\ lruLog # <<>>
    /\ LruLast.op = "put"
    /\ LruLast.key \in StoredKeys(lruPre)
    /\ ValueOf(lruPre, LruLast.key) # LruLast.value
    /\ Cardinality(StoredKeys(lruPre)) = 2
    /\ lruPre.capacity = 2

(***************************************************************************)
(* The vending machine of src/VendingMachine.py.  `self` is the machine    *)
(* with, in `objects`, the heap of the Product objects its client built;   *)
(* a reference to a Product is its index there.  Prices and amounts are    *)
(* in cents.  An enum member is its name and a payment processor the name  *)
(* of its class.  The attribute selected_product exists once reset() has   *)
(* set it: __init__ and select_product write selected_priduct.             *)
(***************************************************************************)

\* The number of calls on the machine in a run.
MaxVmCalls == 5

\* Product(name, price, quantity), with the id it is given.
Product(id, name, price, quantity) ==
    [id |-> id, name |-> name, price |-> price, quantity |-> quantity]

\* The products the client built: one in stock and one out of stock.
Catalogue ==
    << Product("id1", "Cola", 150, 2), Product("id2", "Candy", 75, 0) >>

\* The ids, methods and amounts of the calls; "id9" is no product's id.
ProductIds == {"id1", "id2", "id9"}

PaymentMethods == {"CASH", "CARD", "MOBILE_PAYMENT"}

Amounts == {50, 200}

\* Product.is_available()
IsAvailable(product) == product.quantity > 0

\* Product.decrease_quantity()
DecreaseQuantity(product) ==
    IF IsAvailable(product) THEN [product EXCEPT !.quantity = @ - 1]
    ELSE product

\* VendingMachine(), beside the Products in `objects`.
VendingMachine(objects) ==
    [objects |-> objects,
     products |-> <<>>,
     current_state |-> "IDLE",
     selected_priduct |-> NoRef,
     payment_processor |-> None,
     current_balance |-> 0]

\* The outcome of a call: the machine afterwards, the exception raised with
\* its message, the change returned by dispense_product and the list
\* returned by get_available_products.
Raise(self, err, msg) ==
    [self |-> self, err |-> err, msg |-> msg, change |-> 0,
     available |-> <<>>]

Return(self, change, available) ==
    [self |-> self, err |-> NoError, msg |-> "", change |-> change,
     available |-> available]

\* VendingMachine.add_product(product)
AddProduct(self, product) ==
    Return([self EXCEPT !.products =
                DictSet(@, self.objects[product].id, product)], 0, <<>>)

\* VendingMachine.select_product(product_id)
SelectProduct(self, product_id) ==
    IF ~InDict(self.products, product_id)
    THEN Raise(self, "ValueError", "Product not found")
    ELSE LET product == DictGet(self.products, product_id) IN
         IF ~IsAvailable(self.objects[product])
         THEN Raise(self, "ValueError", "Product out of stock")
         ELSE Return([self EXCEPT !.selected_priduct = product,
                                  !.current_state = "ITEM_SELECTED"],
                     0, <<>>)

\* VendingMachine.select_payment_method(method)
SelectPaymentMethod(self, method) ==
    IF self.current_state # "ITEM_SELECTED"
    THEN Raise(self, "ValueError", "No product selected")
    ELSE IF method = "CASH"
    THEN Return([self EXCEPT !.payment_processor = "CashPaymentProcessor",
                             !.current_state = "PAYMENT_PENDING"], 0, <<>>)
    ELSE IF method = "CARD"
    THEN Return([self EXCEPT
                    !.payment_processor = "CreditCardPaymentProcessor",
                    !.current_state = "PAYMENT_PENDING"], 0, <<>>)
    ELSE Raise(self, "ValueError", "Unsupported payment method")

\* VendingMachine.insert_money(amount)
InsertMoney(self, amount) ==
    IF self.current_state # "PAYMENT_PENDING"
    THEN Raise(self, "ValueError", "Invalid state for inserting money")
    ELSE Return([self EXCEPT !.current_balance = amount], 0, <<>>)

\* process_payment of both processors: the body is `pass`.
ProcessPayment(processor, amount) == None

\* not value, for the values a processor returns.
Not(value) == value = None \/ value = "False"

\* VendingMachine.reset(): it is here that selected_product is set.
Reset(self) ==
    ("selected_product" :> NoRef)
    @@ [self EXCEPT !.current_state = "IDLE",
                    !.payment_processor = None,
                    !.current_balance = 0]

\* VendingMachine.dispense_product()
DispenseProduct(self) ==
    IF self.current_state # "PAYMENT_PENDING"
    THEN Raise(self, "ValueError", "Invalid state for dispensing")
    ELSE IF ~HasAttr(self, "selected_product")
    THEN Raise(self, "AttributeError",
               "'VendingMachine' object has no attribute 'selected_product'")
    ELSE IF self.selected_product = NoRef
    THEN Raise(self, "AttributeError",
               "'NoneType' object has no attribute 'price'")
    ELSE LET product == self.objects[self.selected_product] IN
         IF self.current_balance < product.price
         THEN Raise(self, "ValueError", "Insufficient funds")
         ELSE IF self.payment_processor = None
         THEN Raise(self, "AttributeError",
                    "'NoneType' object has no attribute 'process_payment'")
         ELSE IF Not(ProcessPayment(self.payment_processor, product.price))
         THEN Raise(self, "ValueError", "Payment failed")
         ELSE LET s1 == [self EXCEPT
                            ![ "objects" ][self.selected_product] =
                                DecreaseQuantity(@),
                            !.current_state = "DISPENSING"]
                  change == self.current_balance - product.price
              IN  Return(Reset(s1), change, <<>>)

\* VendingMachine.get_available_products(): references to the Products.
GetAvailableProducts(self) ==
    LET values == [i \in 1..Len(self.products) |-> self.products[i].value]
    IN  Return(self, 0,
               SelectSeq(values, LAMBDA p : IsAvailable(self.objects[p])))

(***************************************************************************)
(* The state machine of the vending machine: a client builds the Products  *)
(* and the machine, then makes one call after the other.  `vmLast` is the  *)
(* call just made, with in `run` the calls made since the machine was      *)
(* last IDLE before a call, and `vmPre` is the machine before it.          *)
(***************************************************************************)

\* A call as the run keeps it.
Made(op, product_id, method, amount, err) ==
    [op |-> op, product_id |-> product_id, method |-> method,
     amount |-> amount, err |-> err]

InitVM ==
    /\ vm = VendingMachine(Catalogue)
    /\ vmPre = vm
    /\ vmLast = [op |-> "__init__", product |-> NoRef, product_id |-> "",
                 method |-> "", amount |-> 0, err |-> NoError, msg |-> "",
                 change |-> 0, available |-> <<>>, run |-> <<>>]
    /\ vmCalls = 0
    /\ NoFileSystem
    /\ NoLRUCache
    /\ NoAuctionService
    /\ NoIceCreamShop
    /\ NoAmazon

StepVM(op, product, product_id, method, amount, r) ==
    /\ vmCalls < MaxVmCalls
    /\ vmCalls' = vmCalls + 1
    /\ vm' = r.self
    /\ vmPre' = vm
    /\ vmLast' = [op |-> op, product |-> product, product_id |-> product_id,
                  method |-> method, amount |-> amount, err |-> r.err,
                  msg |-> r.msg, change |-> r.change,
                  available |-> r.available,
                  run |-> Append(IF vm.current_state = "IDLE" THEN <<>>
                                 ELSE vmLast.run,
                                 Made(op, product_id, method, amount, r.err))]
    /\ UNCHANGED <<fsVars, lruVars, aucVars, iceVars, amzVars>>

add_product(product) ==
    StepVM("add_product", product, "", "", 0, AddProduct(vm, product))

select_product(product_id) ==
    StepVM("select_product", NoRef, product_id, "", 0,
           SelectProduct(vm, product_id))

select_payment_method(method) ==
    StepVM("select_payment_method", NoRef, "", method, 0,
           SelectPaymentMethod(vm, method))

insert_money(amount) ==
    StepVM("insert_money", NoRef, "", "", amount, InsertMoney(vm, amount))

dispense_product ==
    StepVM("dispense_product", NoRef, "", "", 0, DispenseProduct(vm))

reset ==
    StepVM("reset", NoRef, "", "", 0, Return(Reset(vm), 0, <<>>))

get_available_products ==
    StepVM("get_available_products", NoRef, "", "", 0,
           GetAvailableProducts(vm))

NextVM ==
    \/ \E product \in 1..Len(Catalogue) : add_product(product)
    \/ \E product_id \in ProductIds : select_product(product_id)
    \/ \E method \in PaymentMethods : select_payment_method(method)
    \/ \E amount \in Amounts : insert_money(amount)
    \/ dispense_product
    \/ reset
    \/ get_available_products

SpecVM == InitVM /\ [][NextVM]_vars

(***************************************************************************)
(* C20.  Vending machine purchase: starting from IDLE, after               *)
(* select_product(id of an in-stock product), select_payment_method(CASH   *)
(* or CARD) and insert_money(amount) with amount >= price,                 *)
(* dispense_product returns amount - price, decreases that product's       *)
(* quantity by exactly 1, and leaves the machine in IDLE with balance 0    *)
(* and no selected product or payment processor.                           *)
(***************************************************************************)

\* The four calls just made are those of a purchase, the first of them
\* made on an IDLE machine.
Purchase ==
    LET run == vmLast.run IN
    /\ Len(run) = 4
    /\ run[1].op = "select_product"
    /\ InDict(vmPre.products, run[1].product_id)
    /\ IsAvailable(vmPre.objects[DictGet(vmPre.products, run[1].product_id)])
    /\ run[2].op = "select_payment_method"
    /\ run[2].method \in {"CASH", "CARD"}
    /\ run[3].op = "insert_money"
    /\ run[3].amount >=
          vmPre.objects[DictGet(vmPre.products, run[1].product_id)].price
    /\ run[4].op = "dispense_product"

NoSelectedProduct(self) ==
    /\ self.selected_priduct = NoRef
    /\ HasAttr(self, "selected_product") => self.selected_product = NoRef

C20_PurchaseDispenses ==
    Purchase =>
        LET product == DictGet(vmPre.products, vmLast.run[1].product_id)
            amount == vmLast.run[3].amount
        IN  /\ vmLast.err = NoError
            /\ vmLast.change = amount - vmPre.objects[product].price
            /\ vm.objects[product].quantity =
                  vmPre.objects[product].quantity - 1
            /\ vm.current_state = "IDLE"
            /\ vm.current_balance = 0
            /\ NoSelectedProduct(vm)
            /\ vm.payment_processor = None

(***************************************************************************)
(* The client on the nodes themselves.  Every attribute is public, so a    *)
(* client that holds a Directory can call its add_child, with a node of    *)
(* the tree, a node it has just built or something that is no Node, and a  *)
(* client that holds any node can call its set_permissions.  SpecClient    *)
(* is Spec with these calls among the calls of the FileSystem.             *)
(***************************************************************************)

\* The number of add_child and set_permissions calls in a run.
MaxDirect == 1

\* The nodes a client builds to add them, and the flags it sets.
NewKinds == {"Directory", "File"}

NewNames == { <<"a">> }

Flags == { [read |-> FALSE, write |-> FALSE, execute |-> TRUE] }

\* Directory(name) or File(name), built at time t.
New(kind, name, t) ==
    IF kind = "Directory" THEN Directory(name, t) ELSE File(name, t)

\* Directory.add_child(child) on the Directory at `node`, for a child that
\* is a Node:  self.children[child.name] = child; child.parent = self
AddChild(h, node, child) ==
    LET h1 == [h EXCEPT ![node].children = DictSet(@, h[child].name, child)]
    IN  Returned([h1 EXCEPT ![child].parent = node], None)

\* Directory.add_child(child) for a child that is no Node.
AddChildNoNode(h, node) == Raised(h, "TypeError")

\* Node.set_permissions(read, write, execute) on the node at `node`.
SetPermissions(h, node, flags) ==
    Returned([h EXCEPT ![node].permissions =
                  [read |-> flags.read, write |-> flags.write,
                   execute |-> flags.execute]], None)

\* A call on the node at `node`; r is its outcome.
StepOn(op, node, child, flags, r) ==
    /\ now < MaxTime
    /\ direct < MaxDirect
    /\ now' = now + 1
    /\ direct' = direct + 1
    /\ nodes' = r.nodes
    /\ last' = [Call(op, <<>>, <<>>, r) EXCEPT !.node = node,
                                              !.child = child,
                                              !.flags = flags]
    /\ pre' = nodes
    /\ UNCHANGED <<lruVars, vmVars, aucVars, iceVars, amzVars>>

\* add_child with a node of the tree.
add_child(node, child) ==
    /\ HasAttr(nodes[node], "children")
    /\ StepOn("add_child", node, child, DefaultPermissions,
              AddChild(nodes, node, child))

\* add_child with a node built for it.
add_child_new(node, kind, name) ==
    /\ HasAttr(nodes[node], "children")
    /\ LET child == Len(nodes) + 1
           built == Append(nodes, New(kind, name, now + 1))
       IN  StepOn("add_child", node, child, DefaultPermissions,
                  AddChild(built, node, child))

\* add_child with something that is no Node.
add_child_no_node(node) ==
    /\ HasAttr(nodes[node], "children")
    /\ StepOn("add_child", node, NoRef, DefaultPermissions,
              AddChildNoNode(nodes, node))

set_permissions(node, flags) ==
    StepOn("set_permissions", node, NoRef, flags,
           SetPermissions(nodes, node, flags))

NextClient ==
    \/ Next
    \/ \E node \in 1..Len(nodes), child \in 1..Len(nodes) :
          add_child(node, child)
    \/ \E node \in 1..Len(nodes), kind \in NewKinds, name \in NewNames :
          add_child_new(node, kind, name)
    \/ \E node \in 1..Len(nodes) : add_child_no_node(node)
    \/ \E node \in 1..Len(nodes), flags \in Flags :
          set_permissions(node, flags)

SpecClient == Init /\ [][NextClient]_vars

(***************************************************************************)
(* C21.  After any sequence of mkdir, addContentToFile and                 *)
(* Directory.add_child calls, every non-root node n has exactly one parent *)
(* d, and d.children[n.name] is n (the back-reference and the parent's     *)
(* child mapping always agree); no two siblings share a name.  The nodes   *)
(* meant here are those that some child mapping holds.                     *)
(***************************************************************************)

\* The directories of heap h that hold node n in their child mapping.
Holders(h, n) ==
    {d \in 1..Len(h) :
        /\ HasAttr(h[d], "children")
        /\ \E i \in 1..Len(h[d].children) : h[d].children[i].value = n}

C21_ParentAndChildAgree ==
    /\ \A n \in 1..Len(nodes) :
          (n # Root /\ Holders(nodes, n) # {}) =>
             /\ Holders(nodes, n) = {nodes[n].parent}
             /\ InDict(nodes[nodes[n].parent].children, nodes[n].name)
             /\ DictGet(nodes[nodes[n].parent].children, nodes[n].name) = n
    /\ \A d \in 1..Len(nodes) :
          HasAttr(nodes[d], "children") =>
             \A i, j \in 1..Len(nodes[d].children) :
                i # j => nodes[d].children[i].key # nodes[d].children[j].key

(***************************************************************************)
(* C22.  After any sequence of FileSystem operations the structure is a    *)
(* tree rooted at the single root directory: following parent references   *)
(* from any node reaches the root without visiting a node twice, and every *)
(* node ever created is reachable from the root through child mappings     *)
(* (no orphans, no cycles).  The heap holds every node ever created.       *)
(***************************************************************************)

\* Following parent references from n reaches the root in at most `fuel`
\* steps; with as many steps as there are nodes, no node is visited twice.
RECURSIVE ReachesRoot(_, _, _)
ReachesRoot(h, n, fuel) ==
    IF n = Root THEN TRUE
    ELSE IF n = NoRef \/ fuel = 0 THEN FALSE
    ELSE ReachesRoot(h, h[n].parent, fuel - 1)

\* The nodes in `seen` and those their child mappings lead to.
RECURSIVE Below(_, _)
Below(h, seen) ==
    LET more == seen \cup
                {h[d].children[i].value :
                   <<d, i>> \in {<<d, i>> \in seen \X (1..Len(h)) :
                                   /\ HasAttr(h[d], "children")
                                   /\ i \in 1..Len(h[d].children)}}
    IN  IF more = seen THEN seen ELSE Below(h, more)

C22_TreeRootedAtRoot ==
    /\ nodes[Root].parent = NoRef
    /\ \A n \in 1..Len(nodes) : ReachesRoot(nodes, n, Len(nodes))
    /\ Below(nodes, {Root}) = 1..Len(nodes)

\* A tree three levels deep with a File among its nodes.
C22_Witness ==
    /\ Len(nodes) >= 4
    /\ \E n \in 1..Len(nodes) :
          /\ nodes[n].kind = "File"
          /\ nodes[n].parent # Root
          /\ nodes[nodes[n].parent].parent # Root

(***************************************************************************)
(* C23.  Nodes are never deleted or replaced: once a path resolves to a    *)
(* node, then after any further sequence of mkdir, addContentToFile, ls,   *)
(* readContentFromFile and get_metadata calls that path still resolves to  *)
(* the same node of the same variant (a Directory stays a Directory, a     *)
(* File stays a File), and the root is never replaced.  Stated for one     *)
(* call, from the heap before it to the heap after it; a sequence of       *)
(* calls is one call after the other.                                      *)
(***************************************************************************)

\* The segment sequences of the paths of the calls, and their prefixes.
AllParts ==
    UNION {{Prefix(Segments(p), k) : k \in 0..Len(Segments(p))} : p \in Paths}

C23_NodesStay ==
    last.op # "__init__" =>
        /\ Len(nodes) >= Len(pre)
        /\ \A parts \in AllParts :
              At(pre, parts) # {} =>
                 /\ At(nodes, parts) = At(pre, parts)
                 /\ \A n \in At(pre, parts) : nodes[n].kind = pre[n].kind
        /\ At(nodes, <<>>) = {Root}
        /\ nodes[Root].kind = "Directory"
        /\ nodes[Root].name = <<>>

\* A call that built a node in a tree where a path of two segments
\* resolved to a File.
C23_Witness ==
    /\ last.op \in {"mkdir", "addContentToFile"}
    /\ Len(nodes) > Len(pre)
    /\ \E parts \in AllParts :
          /\ Len(parts) = 2
          /\ ResolvesTo(pre, parts, "File")

(***************************************************************************)
(* C24.  Auto-vivification: after addContentToFile(p, s) succeeds, every   *)
(* proper non-empty prefix of p's segment sequence resolves to a           *)
(* Directory; prefixes that were missing before the call have been         *)
(* created as directories whose only child is the next segment of p.       *)
(***************************************************************************)
C24_AutoVivification ==
    (/\ last.op = "addContentToFile"
     /\ last.err = NoError)
    => LET parts == Segments(last.path) IN
       \A k \in 1..(Len(parts) - 1) :
          /\ ResolvesTo(nodes, Prefix(parts, k), "Directory")
          /\ (~Exists(pre, Prefix(parts, k)) =>
                \A d \in At(nodes, Prefix(parts, k)) :
                   /\ d > Len(pre)
                   /\ ChildNames(nodes, d) = {parts[k + 1]})

\* addContentToFile("/a/B/ab", .) with "/a" there and "/a/B" missing.
C24_Witness ==
    /\ last.op = "addContentToFile"
    /\ last.err = NoError
    /\ Len(Segments(last.path)) = 3
    /\ Exists(pre, Prefix(Segments(last.path), 1))
    /\ ~Exists(pre, Prefix(Segments(last.path), 2))
    /\ ResolvesTo(nodes, Segments(last.path), "File")

(***************************************************************************)
(* C25.  A repeated addContentToFile(p, s2) on a path p that already       *)
(* resolves to a File is a silent no-op: it raises no error and leaves the *)
(* file's content and size and the rest of the tree exactly as they were.  *)
(***************************************************************************)
C25_RepeatedAddContentIsNoOp ==
    (/\ last.op = "addContentToFile"
     /\ ResolvesTo(pre, Segments(last.path), "File"))
    => /\ last.err = NoError
       /\ nodes = pre

\* addContentToFile with a content that is not empty, on a File below the
\* root that holds content.
C25_Witness ==
    /\ last.op = "addContentToFile"
    /\ last.content # <<>>
    /\ \E n \in At(pre, Segments(last.path)) :
          /\ pre[n].kind = "File"
          /\ pre[n].content # <<>>

(***************************************************************************)
(* C26.  With time a logical clock that advances on every operation:       *)
(* whenever an operation changes a node's child set (mkdir or              *)
(* addContentToFile attaching a new child, Directory.add_child) or its     *)
(* content (File.add_content), that same node's modificationTime is set to *)
(* the time of the operation; creationTime never changes after             *)
(* construction.                                                           *)
(***************************************************************************)
C26_ModificationTimeFollowsChanges ==
    last.op # "__init__" =>
        \A n \in 1..Len(pre) :
           /\ (/\ HasAttr(pre[n], "children")
               /\ nodes[n].children # pre[n].children)
              => nodes[n].modification_time = now
           /\ (/\ HasAttr(pre[n], "content")
               /\ nodes[n].content # pre[n].content)
              => nodes[n].modification_time = now
           /\ nodes[n].creation_time = pre[n].creation_time

(***************************************************************************)
(* C27.  ls, readContentFromFile and get_metadata are read-only: whether   *)
(* they succeed or fail, the set of nodes, all child mappings, file        *)
(* contents and sizes, timestamps and permissions are the same after the   *)
(* call as before it.                                                      *)
(***************************************************************************)
C27_ReadOpsChangeNothing ==
    last.op \in ReadOps => nodes = pre

\* ls of the root, with its names out of order in the dict, has returned.
C27_Witness ==
    /\ last.op = "ls"
    /\ last.err = NoError
    /\ Len(last.listing) >= 2
    /\ last.listing # Keys(pre[Root].children)
    /\ Segments(last.path) = <<>>

(***************************************************************************)
(* C28.  A mkdir or addContentToFile call that raises leaves the tree as   *)
(* it was before the call: nothing that the call built before it ran into  *)
(* a File remains attached, and no node was added to the heap.             *)
(***************************************************************************)
C28_FailedCallLeavesTree ==
    (/\ last.op \in {"mkdir", "addContentToFile"}
     /\ last.err # NoError)
        => nodes = pre

\* A mkdir has raised on a path of two segments or more whose last segment
\* names nothing.
C28_Witness ==
    /\ last.op = "mkdir"
    /\ last.err # NoError
    /\ Len(Segments(last.path)) >= 2
    /\ ~Exists(pre, Segments(last.path))
    /\ Len(pre) >= 3

(***************************************************************************)
(* C29.  Permission flags are advisory only.  Take the file system the     *)
(* last ls, mkdir, addContentToFile or readContentFromFile call was made   *)
(* on and any file system that differs from it in the permission flags of  *)
(* its nodes alone: the call raises or returns the same in both, and the   *)
(* two resulting trees are the same but for permission flags.              *)
(***************************************************************************)
PermissionChoices ==
    {DefaultPermissions, [read |-> FALSE, write |-> FALSE, execute |-> TRUE]}

\* The first k nodes of heap h with the permission flags of node n
\* replaced by f[n].
RECURSIVE WithFlagsUpTo(_, _, _)
WithFlagsUpTo(h, f, k) ==
    IF k = 0 THEN <<>>
    ELSE Append(WithFlagsUpTo(h, f, k - 1), [h[k] EXCEPT !.permissions = f[k]])

WithFlags(h, f) == WithFlagsUpTo(h, f, Len(h))

\* Heap h with the permission flags left out of the comparison.
Unflagged(h) == WithFlags(h, [n \in 1..Len(h) |-> DefaultPermissions])

PermissionFreeOps == {"ls", "mkdir", "addContentToFile", "readContentFromFile"}

C29_PermissionsAreAdvisory ==
    last.op \in PermissionFreeOps =>
        \A f \in [1..Len(pre) -> PermissionChoices] :
            LET r == Outcome(last.op, WithFlags(pre, f), last.path,
                             last.content, now)
            IN  /\ Call(last.op, last.path, last.content, r) = last
                /\ Unflagged(r.nodes) = Unflagged(nodes)

\* readContentFromFile has returned the content of a file whose read and
\* write flags had been switched off by set_permissions.
C29_Witness ==
    /\ last.op = "readContentFromFile"
    /\ last.err = NoError
    /\ \E n \in At(pre, Segments(last.path)) :
          /\ ~pre[n].permissions.read
          /\ ~pre[n].permissions.write
          /\ pre[n].kind = "File"

(***************************************************************************)
(* C30.  Vending machine ordering: select_payment_method is accepted only  *)
(* in state ITEM_SELECTED, insert_money and dispense_product only in state *)
(* PAYMENT_PENDING; dispense_product with a balance below the price of     *)
(* the product selected is rejected with "Insufficient funds".  Every      *)
(* call that is rejected raises ValueError and leaves the machine state,   *)
(* the selection, the balance and every product's quantity unchanged.      *)
(***************************************************************************)

\* The call just made raised ValueError.
Rejected == vmLast.err = "ValueError"

\* The machine is in PAYMENT_PENDING with less money than the product that
\* select_product chose costs.
Underpaid(self) ==
    /\ self.current_state = "PAYMENT_PENDING"
    /\ self.selected_priduct # NoRef
    /\ self.current_balance < self.objects[self.selected_priduct].price

C30_OrderingOfCalls ==
    /\ (/\ vmLast.op = "select_payment_method"
        /\ vmPre.current_state # "ITEM_SELECTED") => Rejected
    /\ (/\ vmLast.op \in {"insert_money", "dispense_product"}
        /\ vmPre.current_state # "PAYMENT_PENDING") => Rejected
    /\ (/\ vmLast.op = "dispense_product"
        /\ Underpaid(vmPre))
          => (Rejected /\ vmLast.msg = "Insufficient funds")
    /\ vmLast.err # NoError => (Rejected /\ vm = vmPre)

(***************************************************************************)
(* OnlineAuctionApp.py: one auction of one seller, two bidders, the        *)
(* repositories and the notification service behind an AuctionService.     *)
(* Times are minutes; datetime.now() is the time t given to each call.     *)
(***************************************************************************)

\* The number of calls in a run.
MaxAucCalls == 4

\* The ids of the users in the UserRepository.
UserIds == {"seller", "b1", "b2"}

\* The ids a caller passes for the auction: its id, and one of no auction.
AuctionIds == {"a1", "a9"}

\* The amounts a caller bids; the auction starts at the lowest.
BidAmounts == {100, 110, 120}

\* The values datetime.now() takes, in minutes after the hour.
ClockTimes == {50, 56}

\* The end_time an auction is created with: before the hour is over, with
\* a minute below and above 55, and in the hour after.
EndTimes == {53, 57, 70}

\* BaseModel.update()
Update(self, t) == [self EXCEPT !.updated_at = t]

\* User(username, email, password), as far as the service uses it.
User(id, t) ==
    [id |-> id, auctions_participated |-> <<>>, auctions_created |-> <<>>,
     watchlist |-> <<>>, updated_at |-> t]

\* Bid(auction_id, bidder_id, amount)
Bid(auction_id, bidder_id, amount) ==
    [auction_id |-> auction_id, bidder_id |-> bidder_id, amount |-> amount,
     status |-> "ACTIVE"]

\* Auction(item_id, seller_id, start_price, start_time, end_time) built at
\* time t.
Auction(id, seller_id, start_price, end_time, t) ==
    [id |-> id, seller_id |-> seller_id, start_price |-> start_price,
     current_price |-> start_price, end_time |-> end_time,
     status |-> "UPCOMING", bids |-> <<>>, current_winner_id |-> None,
     auto_extend |-> TRUE, extension_minutes |-> 5,
     extension_threshold_minutes |-> 2, updated_at |-> t]

\* What a method of Auction does: the object after it, and what it raised.
Raises(self, msg) == [self |-> self, err |-> "ValueError", msg |-> msg]

Returns(self) == [self |-> self, err |-> NoError, msg |-> ""]

\* The loop over the bids testing for ACTIVE whatever status it is to find.
RECURSIVE OutbidActiveOnly(_, _, _)
OutbidActiveOnly(bids, bidder_id, status) ==
    IF bids = <<>> THEN <<>>
    ELSE LET bid == Head(bids) IN
         <<IF bid.bidder_id = bidder_id /\ bid.status = "ACTIVE"
           THEN [bid EXCEPT !.status = "OUTBID"]
           ELSE bid>> \o OutbidActiveOnly(Tail(bids), bidder_id, status)

\* for existing_bid in self.bids:
\*     if existing_bid.bidder_id == bidder_id and existing_bid.status == status:
\*         existing_bid.status = BidStatus.OUTBID
RECURSIVE Outbid(_, _, _)
Outbid(bids, bidder_id, status) ==
    IF bids = <<>> THEN <<>>
    ELSE LET bid == Head(bids) IN
         <<IF bid.bidder_id = bidder_id /\ bid.status = status
           THEN [bid EXCEPT !.status = "OUTBID"]
           ELSE bid>> \o Outbid(Tail(bids), bidder_id, status)

\* Auction.should_extend() at time t
ShouldExtend(self, t) ==
    self.end_time - t <= self.extension_threshold_minutes

\* Auction.extend_auction(), where replace() accepts the minute.
ExtendAuction(self) ==
    [self EXCEPT !.end_time = @ + self.extension_minutes]

\* Auction.place_bid(bid) at time t
AuctionPlaceBid(self, bid, t) ==
    IF self.status # "LIVE"
    THEN Raises(self, "Cannot place bid on auction with status")
    ELSE IF bid.amount <= self.current_price
    THEN Raises(self, "Bid amount must be greater than current price")
    ELSE LET own == Outbid(self.bids, bid.bidder_id, "ACTIVE")
             others == IF self.current_winner_id # None
                       THEN Outbid(own, self.current_winner_id, "WINNING")
                       ELSE own
             placed == [self EXCEPT
                          !.bids = Append(others,
                                          [bid EXCEPT !.status = "WINNING"]),
                          !.current_price = bid.amount,
                          !.current_winner_id = bid.bidder_id]
         IN  IF placed.auto_extend /\ ShouldExtend(placed, t)
             THEN \* datetime.replace(minute=...) accepts a minute of 0..59 only
                  IF (placed.end_time % 60) + placed.extension_minutes <= 59
                  THEN Returns(Update(ExtendAuction(placed), t))
                  ELSE Raises(placed, "minute must be in 0..59")
             ELSE Returns(Update(placed, t))

\* Auction.start_auction() at time t
AuctionStart(self, t) ==
    IF self.status # "UPCOMING"
    THEN Raises(self, "Cannot start auction with status")
    ELSE Returns(Update([self EXCEPT !.status = "LIVE"], t))

\* The loop of end_auction over the bids.
RECURSIVE Settle(_, _)
Settle(bids, current_winner_id) ==
    IF bids = <<>> THEN <<>>
    ELSE LET bid == Head(bids) IN
         <<IF bid.bidder_id = current_winner_id /\ bid.status = "WINNING"
           THEN [bid EXCEPT !.status = "WON"]
           ELSE IF bid.status \in {"ACTIVE", "OUTBID"}
           THEN [bid EXCEPT !.status = "LOST"]
           ELSE bid>> \o Settle(Tail(bids), current_winner_id)

\* Auction.end_auction() at time t
AuctionEnd(self, t) ==
    IF self.status # "LIVE"
    THEN Raises(self, "Cannot end auction with status")
    ELSE Returns(Update([self EXCEPT
                            !.status = "ENDED",
                            !.bids = Settle(@, self.current_winner_id)], t))

\* Auction.cancel_auction() at time t
AuctionCancel(self, t) ==
    IF self.status = "ENDED"
    THEN Raises(self, "Cannot cancel an auction that has already ended")
    ELSE Returns(Update([self EXCEPT !.status = "CANCELLED"], t))

\* dict.values() of the UserRepository, in the order the users were created.
UserOrder == <<"seller", "b1", "b2">>

\* x in list
InList(list, x) == \E i \in 1..Len(list) : list[i] = x

\* list.remove(x) for an x that is in the list: its first occurrence goes.
RECURSIVE ListRemove(_, _)
ListRemove(list, x) ==
    IF list = <<>> THEN <<>>
    ELSE IF Head(list) = x THEN Tail(list)
    ELSE <<Head(list)>> \o ListRemove(Tail(list), x)

\* Notification(user_id, notification_type, content, related_id)
Notification(user_id, type, related_id) ==
    [user_id |-> user_id, type |-> type, related_id |-> related_id]

\* NotificationService.create_notification(...) on the service objects s
CreateNotification(s, user_id, type, related_id) ==
    [s EXCEPT !.notifications =
                 Append(@, Notification(user_id, type, related_id))]

\* The objects behind an AuctionService after the set-up at time t: three
\* users, and the auction that create_auction built for the seller.
AuctionService(end_time, t) ==
    [clock |-> t,
     auction |-> Auction("a1", "seller", 100, end_time, t),
     users |-> [id \in UserIds |->
                  IF id = "seller"
                  THEN [User(id, t) EXCEPT !.auctions_created = <<"a1">>]
                  ELSE User(id, t)],
     bid_repository |-> <<>>,
     notifications |-> <<>>]

\* AuctionService.place_bid(auction_id, bidder_id, amount) at time t.  The
\* Bid is in the repository before Auction.place_bid runs, and it is the
\* object the auction appends: the repository holds its place in bids.
ServicePlaceBid(s, auction_id, bidder_id, amount, t) ==
    IF auction_id # s.auction.id
    THEN Raises(s, "Auction not found")
    ELSE IF bidder_id \notin UserIds
    THEN Raises(s, "Bidder not found")
    ELSE IF s.auction.seller_id = bidder_id
    THEN Raises(s, "Seller cannot bid on their own auction")
    ELSE IF s.auction.status # "LIVE"
    THEN Raises(s, "Cannot place bid on auction with status")
    ELSE IF amount <= s.auction.current_price
    THEN Raises(s, "Bid amount must be greater than current price")
    ELSE LET r == AuctionPlaceBid(s.auction, Bid(auction_id, bidder_id, amount), t)
             created == [s EXCEPT !.bid_repository =
                                     Append(@, Len(s.auction.bids) + 1),
                                  !.auction = r.self]
         IN  IF r.err # NoError THEN Raises(created, r.msg)
             ELSE LET \* auction_repository.update(auction)
                      updated == [created EXCEPT !.auction = Update(@, t)]
                      joined ==
                        IF InList(updated.users[bidder_id].auctions_participated,
                                  auction_id)
                        THEN updated
                        ELSE \* user_repository.update(bidder)
                             [updated EXCEPT
                                !.users[bidder_id] =
                                    Update([@ EXCEPT !.auctions_participated =
                                                        Append(@, auction_id)],
                                           t)]
                      told == CreateNotification(joined, joined.auction.seller_id,
                                                 "NEW_BID", auction_id)
                  IN  IF /\ told.auction.current_winner_id # None
                         /\ told.auction.current_winner_id # bidder_id
                      THEN Returns(CreateNotification(
                                      told, told.auction.current_winner_id,
                                      "OUTBID", auction_id))
                      ELSE Returns(told)

\* The loop of start_auction over the users, from the i-th on.
RECURSIVE NotifyWatchers(_, _, _)
NotifyWatchers(s, auction_id, i) ==
    IF i > Len(UserOrder) THEN s
    ELSE NotifyWatchers(
            IF InList(s.users[UserOrder[i]].watchlist, auction_id)
            THEN CreateNotification(s, UserOrder[i], "AUCTION_START", auction_id)
            ELSE s,
            auction_id, i + 1)

\* AuctionService.start_auction(auction_id) at time t
ServiceStartAuction(s, auction_id, t) ==
    IF auction_id # s.auction.id
    THEN Raises(s, "Auction not found")
    ELSE LET r == AuctionStart(s.auction, t) IN
         IF r.err # NoError THEN Raises([s EXCEPT !.auction = r.self], r.msg)
         ELSE Returns(NotifyWatchers(
                 [s EXCEPT !.auction = Update(r.self, t)], auction_id, 1))

\* AuctionService.end_auction(auction_id) at time t
ServiceEndAuction(s, auction_id, t) ==
    IF auction_id # s.auction.id
    THEN Raises(s, "Auction not found")
    ELSE LET r == AuctionEnd(s.auction, t) IN
         IF r.err # NoError THEN Raises([s EXCEPT !.auction = r.self], r.msg)
         ELSE LET ended == [s EXCEPT !.auction = Update(r.self, t)] IN
              IF ended.auction.current_winner_id # None
              THEN Returns(CreateNotification(
                      CreateNotification(ended, ended.auction.current_winner_id,
                                         "WINNING_BID", auction_id),
                      ended.auction.seller_id, "AUCTION_END", auction_id))
              ELSE Returns(CreateNotification(ended, ended.auction.seller_id,
                                              "AUCTION_END", auction_id))

\* AuctionService.add_to_watchlist(user_id, auction_id) at time t
AddToWatchlist(s, user_id, auction_id, t) ==
    IF user_id \notin UserIds THEN Raises(s, "User not found")
    ELSE IF auction_id # s.auction.id THEN Raises(s, "Auction not found")
    ELSE IF InList(s.users[user_id].watchlist, auction_id) THEN Returns(s)
    ELSE Returns([s EXCEPT
                    !.users[user_id] =
                        Update([@ EXCEPT !.watchlist = Append(@, auction_id)], t)])

\* AuctionService.remove_from_watchlist(user_id, auction_id) at time t
RemoveFromWatchlist(s, user_id, auction_id, t) ==
    IF user_id \notin UserIds THEN Raises(s, "User not found")
    ELSE IF ~InList(s.users[user_id].watchlist, auction_id) THEN Returns(s)
    ELSE Returns([s EXCEPT
                    !.users[user_id] =
                        Update([@ EXCEPT !.watchlist = ListRemove(@, auction_id)],
                               t)])

\* A method of the Auction itself, called on the auction of the service.
OnAuction(s, r) == [r EXCEPT !.self = [s EXCEPT !.auction = r.self]]

InitAuc ==
    /\ \E end_time \in EndTimes :
          auc = AuctionService(end_time,
                               CHOOSE t \in ClockTimes :
                                  \A u \in ClockTimes : t <= u)
    /\ aucPre = auc
    /\ aucLast = [op |-> "__init__", auction_id |-> "", user_id |-> "",
                  amount |-> 0, t |-> auc.clock, err |-> NoError, msg |-> ""]
    /\ aucCalls = 0
    /\ NoFileSystem
    /\ NoLRUCache
    /\ NoVendingMachine
    /\ NoIceCreamShop
    /\ NoAmazon

\* One call at time t, not before the call before it.
StepAuc(op, auction_id, user_id, amount, t, r) ==
    /\ aucCalls < MaxAucCalls
    /\ t >= auc.clock
    /\ aucCalls' = aucCalls + 1
    /\ auc' = [r.self EXCEPT !.clock = t]
    /\ aucPre' = auc
    /\ aucLast' = [op |-> op, auction_id |-> auction_id, user_id |-> user_id,
                   amount |-> amount, t |-> t, err |-> r.err, msg |-> r.msg]
    /\ UNCHANGED <<fsVars, lruVars, vmVars, iceVars, amzVars>>

place_bid(auction_id, bidder_id, amount, t) ==
    StepAuc("place_bid", auction_id, bidder_id, amount, t,
            ServicePlaceBid(auc, auction_id, bidder_id, amount, t))

start_auction(auction_id, t) ==
    StepAuc("start_auction", auction_id, "", 0, t,
            ServiceStartAuction(auc, auction_id, t))

end_auction(auction_id, t) ==
    StepAuc("end_auction", auction_id, "", 0, t,
            ServiceEndAuction(auc, auction_id, t))

add_to_watchlist(user_id, auction_id, t) ==
    StepAuc("add_to_watchlist", auction_id, user_id, 0, t,
            AddToWatchlist(auc, user_id, auction_id, t))

remove_from_watchlist(user_id, auction_id, t) ==
    StepAuc("remove_from_watchlist", auction_id, user_id, 0, t,
            RemoveFromWatchlist(auc, user_id, auction_id, t))

\* auction.place_bid(Bid(auction.id, bidder_id, amount)) on the Auction
auction_place_bid(bidder_id, amount, t) ==
    StepAuc("Auction.place_bid", auc.auction.id, bidder_id, amount, t,
            OnAuction(auc, AuctionPlaceBid(
                              auc.auction,
                              Bid(auc.auction.id, bidder_id, amount), t)))

auction_start_auction(t) ==
    StepAuc("Auction.start_auction", auc.auction.id, "", 0, t,
            OnAuction(auc, AuctionStart(auc.auction, t)))

auction_end_auction(t) ==
    StepAuc("Auction.end_auction", auc.auction.id, "", 0, t,
            OnAuction(auc, AuctionEnd(auc.auction, t)))

auction_cancel_auction(t) ==
    StepAuc("Auction.cancel_auction", auc.auction.id, "", 0, t,
            OnAuction(auc, AuctionCancel(auc.auction, t)))

NextAuc ==
    \E t \in ClockTimes :
       \/ \E auction_id \in AuctionIds, bidder_id \in UserIds \cup {"u9"},
             amount \in BidAmounts :
             place_bid(auction_id, bidder_id, amount, t)
       \/ \E auction_id \in AuctionIds : start_auction(auction_id, t)
       \/ \E auction_id \in AuctionIds : end_auction(auction_id, t)
       \/ \E user_id \in {"b2", "u9"}, auction_id \in AuctionIds :
             add_to_watchlist(user_id, auction_id, t)
       \/ \E user_id \in {"b2", "u9"}, auction_id \in AuctionIds :
             remove_from_watchlist(user_id, auction_id, t)
       \/ \E bidder_id \in UserIds, amount \in BidAmounts :
             auction_place_bid(bidder_id, amount, t)
       \/ auction_start_auction(t)
       \/ auction_end_auction(t)
       \/ auction_cancel_auction(t)

SpecAuc == InitAuc /\ [][NextAuc]_vars

(***************************************************************************)
(* C31.  Auction lifecycle: the status of an auction changes only from     *)
(* UPCOMING to LIVE by start_auction, from LIVE to ENDED by end_auction,   *)
(* or to CANCELLED by cancel_auction from any status but ENDED; once       *)
(* ENDED or CANCELLED it never changes again; place_bid is accepted only   *)
(* while LIVE; and a start_auction, end_auction, cancel_auction or         *)
(* place_bid that is rejected raises ValueError and leaves status, bids,   *)
(* current_price and current_winner_id as they were.                       *)
(***************************************************************************)

StartOps == {"start_auction", "Auction.start_auction"}

EndOps == {"end_auction", "Auction.end_auction"}

CancelOps == {"Auction.cancel_auction"}

BidOps == {"place_bid", "Auction.place_bid"}

\* The status of the auction went from `from` to `to` in the last call.
Went(from, to) ==
    /\ aucPre.auction.status = from
    /\ auc.auction.status = to

LifecycleStep ==
    \/ auc.auction.status = aucPre.auction.status
    \/ Went("UPCOMING", "LIVE") /\ aucLast.op \in StartOps
    \/ Went("LIVE", "ENDED") /\ aucLast.op \in EndOps
    \/ /\ auc.auction.status = "CANCELLED"
       /\ aucPre.auction.status # "ENDED"
       /\ aucLast.op \in CancelOps

StatusIsFinal ==
    aucPre.auction.status \in {"ENDED", "CANCELLED"} =>
        auc.auction.status = aucPre.auction.status

BidsOnlyWhileLive ==
    (aucLast.op \in BidOps /\ aucLast.err = NoError) =>
        aucPre.auction.status = "LIVE"

SameAuction ==
    /\ auc.auction.status = aucPre.auction.status
    /\ auc.auction.bids = aucPre.auction.bids
    /\ auc.auction.current_price = aucPre.auction.current_price
    /\ auc.auction.current_winner_id = aucPre.auction.current_winner_id

C31_AuctionLifecycle ==
    /\ LifecycleStep
    /\ StatusIsFinal
    /\ BidsOnlyWhileLive
    /\ (/\ aucLast.op \in StartOps \cup EndOps \cup CancelOps \cup BidOps
        /\ aucLast.err # NoError)
          => (aucLast.err = "ValueError" /\ SameAuction)

(***************************************************************************)
(* C32.  In every reachable state of a LIVE auction that holds a bid,      *)
(* exactly one bid is WINNING: it is the bid placed last and its amount    *)
(* is the highest, current_price is its amount and current_winner_id its   *)
(* bidder, and every other bid is OUTBID.  After end_auction that bid is   *)
(* WON and every other bid is LOST.                                        *)
(***************************************************************************)

\* The places in bids of the bids with the given status.
BidsWith(bids, status) == {i \in 1..Len(bids) : bids[i].status = status}

\* The bid placed last is the one bid with status `first`, its amount is
\* above that of every other bid, and every other bid has status `rest`.
LastBidLeads(bids, first, rest) ==
    /\ BidsWith(bids, first) = {Len(bids)}
    /\ BidsWith(bids, rest) = 1..(Len(bids) - 1)
    /\ \A i \in 1..(Len(bids) - 1) : bids[i].amount < bids[Len(bids)].amount

Sent ==
    SubSeq(auc.notifications, Len(aucPre.notifications) + 1,
           Len(auc.notifications))

WasSent(user_id, type) ==
    \E i \in 1..Len(Sent) : Sent[i].user_id = user_id /\ Sent[i].type = type

C33_DisplacedWinnerIsNotified ==
    (/\ aucLast.op = "place_bid"
     /\ aucLast.err = NoError
     /\ aucPre.auction.current_winner_id # None
     /\ aucPre.auction.current_winner_id # aucLast.user_id)
        => /\ WasSent(aucPre.auction.current_winner_id, "OUTBID")
           /\ WasSent(aucPre.auction.seller_id, "NEW_BID")
           /\ ~WasSent(aucLast.user_id, "OUTBID")

(***************************************************************************)
(* IceCreamShop.py: an InventoryService with one container, two flavors    *)
(* and two toppings, and the OrderService over it, called through the      *)
(* IceCreamShopFacade.  No payment is created: order.payment stays None.   *)
(***************************************************************************)

\* The number of calls in a run.
MaxIceCalls == 5

\* Item.__init__ under Container, IceCreamFlavor and Topping: an item with
\* its stock, available when the stock is positive.
Item(quantity_in_stock) ==
    [quantity_in_stock |-> quantity_in_stock,
     is_available |-> quantity_in_stock > 0]

\* InventoryService() after add_container, add_flavor and add_topping.
InventoryService ==
    [containers |-> [id \in {"C1"} |-> Item(3)],
     flavors |-> [id \in {"F1", "F2"} |-> IF id = "F1" THEN Item(2) ELSE Item(1)],
     toppings |-> [id \in {"T1", "T2"} |-> Item(1)]]

\* IceCreamScoop(flavor) after add_topping for each of toppings.
IceCreamScoop(flavor, toppings) == [flavor |-> flavor, toppings |-> toppings]

\* IceCream(id, container) after add_scoop for each of scoops.
IceCream(container, scoops) == [container |-> container, scoops |-> scoops]

\* The ice creams a caller builds: of one scoop, of one scoop with a
\* topping, of two scoops, and of one scoop with two toppings.
IceCreams ==
    {IceCream("C1", <<IceCreamScoop("F1", <<>>)>>),
     IceCream("C1", <<IceCreamScoop("F2", <<"T2">>)>>),
     IceCream("C1", <<IceCreamScoop("F1", <<>>), IceCreamScoop("F2", <<>>)>>),
     IceCream("C1", <<IceCreamScoop("F1", <<"T1", "T2">>)>>)}

\* The ids create_order gives the orders, in the order they are created.
OrderIdsInOrder == <<"O1", "O2">>

\* The ids a caller passes: those of the orders, and one of no order.
OrderIds == {"O1", "O2", "O9"}

\* Order(id, customer)
Order(id) == [id |-> id, items |-> <<>>, status |-> "CREATED", payment |-> None]

\* The shop: the inventory, and orders as the dict of the OrderService in
\* insertion order.
IceCreamShopFacade == [inventory |-> InventoryService, orders |-> <<>>]

\* order_id in self.orders
HasOrder(self, order_id) ==
    \E i \in 1..Len(self.orders) : self.orders[i].id = order_id

\* The place of self.orders[order_id] in the dict.
OrderAt(self, order_id) ==
    CHOOSE i \in 1..Len(self.orders) : self.orders[i].id = order_id

\* InventoryService.update_container_stock, update_flavor_stock and
\* update_topping_stock (id, quantity), each on its own dict of the
\* inventory, `items`: the inventory after the call and what the call
\* returned.
UpdateStock(inv, items, id, quantity) ==
    IF /\ id \in DOMAIN inv[items]
       /\ inv[items][id].quantity_in_stock + quantity >= 0
    THEN [inv |-> [inv EXCEPT
                     ![items][id] =
                         [quantity_in_stock |-> @.quantity_in_stock + quantity,
                          is_available |-> @.quantity_in_stock + quantity > 0]],
          ok |-> TRUE]
    ELSE [inv |-> inv, ok |-> FALSE]

\* The loop of _check_and_update_inventory over the toppings of a scoop,
\* from the j-th on.
RECURSIVE ToppingsLoop(_, _, _, _, _, _)
ToppingsLoop(inv, container_id, flavor_id, toppings, j, multiplier) ==
    IF j > Len(toppings) THEN [inv |-> inv, ok |-> TRUE]
    ELSE LET r == UpdateStock(inv, "toppings", toppings[j], multiplier) IN
         IF ~r.ok
         THEN [inv |-> UpdateStock(
                          UpdateStock(inv, "containers", container_id,
                                      -multiplier).inv,
                          "flavors", flavor_id, -multiplier).inv,
               ok |-> FALSE]
         ELSE ToppingsLoop(r.inv, container_id, flavor_id, toppings, j + 1,
                           multiplier)

\* The loop of _check_and_update_inventory over the scoops, from the i-th
\* on.
RECURSIVE ScoopsLoop(_, _, _, _, _)
ScoopsLoop(inv, container_id, scoops, i, multiplier) ==
    IF i > Len(scoops) THEN [inv |-> inv, ok |-> TRUE]
    ELSE LET r == UpdateStock(inv, "flavors", scoops[i].flavor, multiplier) IN
         IF ~r.ok
         THEN [inv |-> UpdateStock(inv, "containers", container_id, -multiplier).inv,
               ok |-> FALSE]
         ELSE LET t == ToppingsLoop(r.inv, container_id, scoops[i].flavor,
                                    scoops[i].toppings, 1, multiplier)
              IN  IF ~t.ok THEN t
                  ELSE ScoopsLoop(t.inv, container_id, scoops, i + 1, multiplier)

\* OrderService._check_and_update_inventory(ice_cream, multiplier)
CheckAndUpdateInventory(inv, ice_cream, multiplier) ==
    LET r == UpdateStock(inv, "containers", ice_cream.container, multiplier) IN
    IF ~r.ok THEN [inv |-> inv, ok |-> FALSE]
    ELSE ScoopsLoop(r.inv, ice_cream.container, ice_cream.scoops, 1, multiplier)

\* What a call on the shop does: the shop after it and what it returned.
Answer(self, ret) == [self |-> self, ret |-> ret]

\* OrderService.create_order(customer), for a customer the shop knows.
CreateOrder(self) ==
    Answer([self EXCEPT !.orders =
                Append(@, Order(OrderIdsInOrder[Len(self.orders) + 1]))], TRUE)

\* OrderService.add_item_to_order(order_id, ice_cream)
AddItemToOrder(self, order_id, ice_cream) ==
    IF ~HasOrder(self, order_id) THEN Answer(self, FALSE)
    ELSE LET i == OrderAt(self, order_id) IN
         IF self.orders[i].status # "CREATED" THEN Answer(self, FALSE)
         ELSE LET r == CheckAndUpdateInventory(self.inventory, ice_cream, -1) IN
              IF r.ok
              THEN Answer([self EXCEPT !.inventory = r.inv,
                                       !.orders[i].items = Append(@, ice_cream)],
                          TRUE)
              ELSE Answer([self EXCEPT !.inventory = r.inv], FALSE)

\* OrderService.update_order_status(order_id, status), the order being there.
UpdateOrderStatus(self, order_id, status) ==
    [self EXCEPT !.orders[OrderAt(self, order_id)].status = status]

\* place_order, complete_order and deliver_order of the facade: the order
\* goes from status `from` to status `to`.
Advance(self, order_id, from, to) ==
    IF /\ HasOrder(self, order_id)
       /\ self.orders[OrderAt(self, order_id)].status = from
    THEN Answer(UpdateOrderStatus(self, order_id, to), TRUE)
    ELSE Answer(self, FALSE)

\* The loop of cancel_order over the items of the order, from the k-th on.
RECURSIVE ReturnItems(_, _, _)
ReturnItems(inv, items, k) ==
    IF k > Len(items) THEN inv
    ELSE ReturnItems(CheckAndUpdateInventory(inv, items[k], 1).inv, items, k + 1)

\* OrderService.cancel_order(order_id)
CancelOrder(self, order_id) ==
    IF ~HasOrder(self, order_id) THEN Answer(self, FALSE)
    ELSE LET i == OrderAt(self, order_id) IN
         IF self.orders[i].status = "DELIVERED" THEN Answer(self, FALSE)
         ELSE Answer([self EXCEPT
                        !.orders[i].status = "CANCELLED",
                        !.orders[i].payment =
                            IF @ = "COMPLETED" THEN "REFUNDED" ELSE @,
                        !.inventory = ReturnItems(@, self.orders[i].items, 1)],
                     TRUE)

InitIce ==
    /\ ice = IceCreamShopFacade
    /\ icePre = ice
    /\ iceLast = [op |-> "__init__", order_id |-> "", ice_cream |-> IceCream("", <<>>),
                  ret |-> TRUE]
    /\ iceCalls = 0
    /\ NoFileSystem
    /\ NoLRUCache
    /\ NoVendingMachine
    /\ NoAuctionService
    /\ NoAmazon

StepIce(op, order_id, ice_cream, r) ==
    /\ iceCalls < MaxIceCalls
    /\ iceCalls' = iceCalls + 1
    /\ ice' = r.self
    /\ icePre' = ice
    /\ iceLast' = [op |-> op, order_id |-> order_id, ice_cream |-> ice_cream,
                   ret |-> r.ret]
    /\ UNCHANGED <<fsVars, lruVars, vmVars, aucVars, amzVars>>

create_order ==
    /\ Len(ice.orders) < Len(OrderIdsInOrder)
    /\ StepIce("create_order", OrderIdsInOrder[Len(ice.orders) + 1], IceCream("", <<>>),
               CreateOrder(ice))

add_item_to_order(order_id, ice_cream) ==
    StepIce("add_item_to_order", order_id, ice_cream,
            AddItemToOrder(ice, order_id, ice_cream))

place_order(order_id) ==
    StepIce("place_order", order_id, IceCream("", <<>>), Advance(ice, order_id, "CREATED", "PREPARING"))

complete_order(order_id) ==
    StepIce("complete_order", order_id, IceCream("", <<>>), Advance(ice, order_id, "PREPARING", "READY"))

deliver_order(order_id) ==
    StepIce("deliver_order", order_id, IceCream("", <<>>), Advance(ice, order_id, "READY", "DELIVERED"))

cancel_order(order_id) ==
    StepIce("cancel_order", order_id, IceCream("", <<>>), CancelOrder(ice, order_id))

NextIce ==
    \/ create_order
    \/ \E order_id \in OrderIds, ice_cream \in IceCreams :
          add_item_to_order(order_id, ice_cream)
    \/ \E order_id \in OrderIds : place_order(order_id)
    \/ \E order_id \in OrderIds : complete_order(order_id)
    \/ \E order_id \in OrderIds : deliver_order(order_id)
    \/ \E order_id \in OrderIds : cancel_order(order_id)

SpecIce == InitIce /\ [][NextIce]_vars

(***************************************************************************)
(* C34.  Ice-cream order rollback: when add_item_to_order returns False    *)
(* (no such order, an order that is not CREATED, or a container, flavor    *)
(* or topping of the ice cream out of stock), every stock quantity and     *)
(* availability flag of the containers, flavors and toppings is what it    *)
(* was before the call, whatever the number of scoops and toppings of the  *)
(* ice cream, and the item is not in the order.                            *)
(***************************************************************************)
C34_FailedAddRollsBack ==
    (iceLast.op = "add_item_to_order" /\ ~iceLast.ret) =>
        /\ \A id \in DOMAIN ice.inventory.containers :
              ice.inventory.containers[id] = icePre.inventory.containers[id]
        /\ \A id \in DOMAIN ice.inventory.flavors :
              ice.inventory.flavors[id] = icePre.inventory.flavors[id]
        /\ \A id \in DOMAIN ice.inventory.toppings :
              ice.inventory.toppings[id] = icePre.inventory.toppings[id]
        /\ ice.orders = icePre.orders

(***************************************************************************)
(* C35.  Ice-cream inventory conservation: after any sequence of           *)
(* add_item_to_order, place_order, complete_order, deliver_order and       *)
(* cancel_order calls, each stock quantity is its initial quantity less    *)
(* the units used by the items of the orders that are not CANCELLED; so    *)
(* cancel_order returns the items of an order to stock once, however many  *)
(* times it is called on the order.                                        *)
(***************************************************************************)

\* The number of times x occurs in a list.
Occurrences(list, x) == Cardinality({i \in 1..Len(list) : list[i] = x})

\* The sum of the numbers of a list, from the k-th on.
RECURSIVE TotalFrom(_, _)
TotalFrom(numbers, k) ==
    IF k > Len(numbers) THEN 0 ELSE numbers[k] + TotalFrom(numbers, k + 1)

Total(numbers) == TotalFrom(numbers, 1)

\* The units of the container, flavor and topping `id` in one ice cream.
ContainerUnits(ice_cream, id) == IF ice_cream.container = id THEN 1 ELSE 0

FlavorUnits(ice_cream, id) ==
    Cardinality({i \in 1..Len(ice_cream.scoops) : ice_cream.scoops[i].flavor = id})

ToppingUnits(ice_cream, id) ==
    Total([i \in 1..Len(ice_cream.scoops) |->
              Occurrences(ice_cream.scoops[i].toppings, id)])

\* The units that the items of the orders not CANCELLED use, Units(_, id)
\* being the units of one ice cream.
UnitsInUse(Units(_, _), id) ==
    Total([o \in 1..Len(ice.orders) |->
              IF ice.orders[o].status = "CANCELLED" THEN 0
              ELSE Total([k \in 1..Len(ice.orders[o].items) |->
                             Units(ice.orders[o].items[k], id)])])

C35_StockIsConserved ==
    /\ \A id \in DOMAIN ice.inventory.containers :
          ice.inventory.containers[id].quantity_in_stock =
             InventoryService.containers[id].quantity_in_stock
                - UnitsInUse(ContainerUnits, id)
    /\ \A id \in DOMAIN ice.inventory.flavors :
          ice.inventory.flavors[id].quantity_in_stock =
             InventoryService.flavors[id].quantity_in_stock
                - UnitsInUse(FlavorUnits, id)
    /\ \A id \in DOMAIN ice.inventory.toppings :
          ice.inventory.toppings[id].quantity_in_stock =
             InventoryService.toppings[id].quantity_in_stock
                - UnitsInUse(ToppingUnits, id)

(***************************************************************************)
(* Amazon.py: one User with the Cart, two Products and the Orders placed.  *)
(* No Payment is created: order.payment stays None and status 'Placed'.    *)
(***************************************************************************)

\* The number of calls in a run.
MaxAmzCalls == 4

\* The products a caller passes.
ProductIDs == {"P1", "P2"}

\* The quantities a caller passes.
Quantities == {1, 2, 3}

\* Product(productID, name, price, stock), as far as the cart uses it.
AmazonProduct(productID, stock) == [productID |-> productID, stock |-> stock]

\* Order(products), the count of orders being order_id.
AmazonOrder(order_id, products) ==
    [order_id |-> order_id, products |-> products, status |-> "Placed",
     payment |-> None]

\* User(userID, name, email) with the empty Cart, beside two Products.
AmazonUser ==
    [products |-> [id \in ProductIDs |->
                      AmazonProduct(id, IF id = "P1" THEN 2 ELSE 1)],
     cart |-> <<>>,
     orders |-> <<>>,
     order_count |-> 0]

\* What a call does: the objects after it, and whether it printed a refusal.
Done(self, printed) == [self |-> self, printed |-> printed]

\* Cart.add_product(product, quantity)
CartAddProduct(self, product, quantity) ==
    IF quantity > self.products[product].stock THEN Done(self, TRUE)
    ELSE Done([self EXCEPT
                 !.cart = DictSet(@, product,
                                  (IF InDict(self.cart, product)
                                   THEN DictGet(self.cart, product) ELSE 0)
                                  + quantity),
                 !.products[product].stock = @ - quantity],
              FALSE)

\* Cart.remove_product(product, quantity)
CartRemoveProduct(self, product, quantity) ==
    IF ~InDict(self.cart, product) THEN Done(self, TRUE)
    ELSE IF quantity > DictGet(self.cart, product) THEN Done(self, TRUE)
    ELSE LET left == DictGet(self.cart, product) - quantity
             at == CHOOSE i \in 1..Len(self.cart) : self.cart[i].key = product
         IN
         Done([self EXCEPT
                 !.cart = IF left = 0
                          THEN \* del self.products[product]
                               SubSeq(@, 1, at - 1) \o SubSeq(@, at + 1, Len(@))
                          ELSE DictSet(@, product, left),
                 !.products[product].stock = @ + quantity],
              FALSE)

\* The loop of empty_cart over the items of the cart, from the i-th on.
RECURSIVE ReturnToStock(_, _, _)
ReturnToStock(products, cart, i) ==
    IF i > Len(cart) THEN products
    ELSE ReturnToStock([products EXCEPT ![cart[i].key].stock = @ + cart[i].value],
                       cart, i + 1)

\* Cart.empty_cart()
EmptyCart(self) ==
    [self EXCEPT !.products = ReturnToStock(@, self.cart, 1),
                 !.cart = <<>>]

\* User.place_order()
UserPlaceOrder(self) ==
    LET counted == [self EXCEPT !.order_count = @ + 1]
        ordered == [counted EXCEPT
                      !.orders = Append(@, AmazonOrder(counted.order_count,
                                                       self.cart))]
    IN  Done(EmptyCart(ordered), FALSE)

InitAmz ==
    /\ amz = AmazonUser
    /\ amzPre = amz
    /\ amzLast = [op |-> "__init__", product |-> "", quantity |-> 0,
                  printed |-> FALSE]
    /\ amzCalls = 0
    /\ NoFileSystem
    /\ NoLRUCache
    /\ NoVendingMachine
    /\ NoAuctionService
    /\ NoIceCreamShop

StepAmz(op, product, quantity, r) ==
    /\ amzCalls < MaxAmzCalls
    /\ amzCalls' = amzCalls + 1
    /\ amz' = r.self
    /\ amzPre' = amz
    /\ amzLast' = [op |-> op, product |-> product, quantity |-> quantity,
                   printed |-> r.printed]
    /\ UNCHANGED <<fsVars, lruVars, vmVars, aucVars, iceVars>>

\* User.add_to_cart(product, quantity)
add_to_cart(product, quantity) ==
    StepAmz("add_to_cart", product, quantity,
            CartAddProduct(amz, product, quantity))

\* User.remove_from_cart(product, quantity)
remove_from_cart(product, quantity) ==
    StepAmz("remove_from_cart", product, quantity,
            CartRemoveProduct(amz, product, quantity))

\* User.place_order()
user_place_order ==
    StepAmz("place_order", "", 0, UserPlaceOrder(amz))

NextAmz ==
    \/ \E product \in ProductIDs, quantity \in Quantities :
          add_to_cart(product, quantity)
    \/ \E product \in ProductIDs, quantity \in Quantities :
          remove_from_cart(product, quantity)
    \/ user_place_order

SpecAmz == InitAmz /\ [][NextAmz]_vars

(***************************************************************************)
(* C36.  Amazon cart and order stock accounting: after User.place_order    *)
(* the order holds the quantities that were in the cart, the cart is       *)
(* empty, and the stock of each ordered product stays reduced by the       *)
(* quantity ordered: stock, units in the cart and units in placed orders   *)
(* add up to the same before and after place_order.  add_product with a    *)
(* quantity above the stock changes neither the cart nor the stock.        *)
(***************************************************************************)

\* The units of a product in a dict of product -> quantity.
UnitsOf(dict, product) ==
    IF \E i \in 1..Len(dict) : dict[i].key = product
    THEN dict[CHOOSE i \in 1..Len(dict) : dict[i].key = product].value
    ELSE 0

\* The units of a product in stock, in the cart and in the orders placed.
Accounted(self, product) ==
    self.products[product].stock
      + UnitsOf(self.cart, product)
      + Total([o \in 1..Len(self.orders) |->
                  UnitsOf(self.orders[o].products, product)])

C36_StockAccounting ==
    /\ amzLast.op = "place_order" =>
          /\ Len(amz.orders) = Len(amzPre.orders) + 1
          /\ \A product \in ProductIDs :
                /\ UnitsOf(amz.orders[Len(amz.orders)].products, product) =
                      UnitsOf(amzPre.cart, product)
                /\ Accounted(amz, product) = Accounted(amzPre, product)
          /\ amz.cart = <<>>
    /\ (/\ amzLast.op = "add_to_cart"
        /\ amzLast.quantity > amzPre.products[amzLast.product].stock)
          => /\ amz.cart = amzPre.cart
             /\ amz.products = amzPre.products

====
